---- MODULE Spec2Model ----
(***************************************************************************)
(* Model of the prescription parser of src/medicine_api.py: the OCR line   *)
(* normaliser and noise filter, the DrugLexicon matcher, the usage-range   *)
(* parser, parse_prescription and generate_alarms.                         *)
(*                                                                         *)
(* A Python str is a sequence of Unicode code points (integers), so that   *)
(* character classes, the Hangul jamo decomposition and the regular        *)
(* expressions are computed as the code computes them.  Scores are exact   *)
(* rationals held as integers in units of 1/ScoreUnit.                     *)
(***************************************************************************)
EXTENDS Integers, Sequences, FiniteSets, TLC

(* lexicon, default_meal_times and api_key are the fields of the service   *)
(* object; hash_seed is the order in which this process iterates a set of  *)
(* str; op and arg are the call being served, pc its position ("call"      *)
(* before the body has run, "return" after) and ret the value it returns;  *)
(* lookups is the list of calls the body made to get_medicine_info, each   *)
(* with the name it asked for and what it got.                              *)
VARIABLES lexicon, default_meal_times, api_key, hash_seed, op, arg, pc, ret, lookups

vars == <<lexicon, default_meal_times, api_key, hash_seed, op, arg, pc, ret, lookups>>

(* Python's None, and the values whose type the code does not control: a   *)
(* JSON value of the request or of a lookup reply is None, a str, a number *)
(* (held in hundredths) or a list.                                          *)
None == [none |-> TRUE]
Str(s) == [str |-> s]
Number(h) == [hundredths |-> h]
List(xs) == [list |-> xs]

(* A local name: F applied to the value v, as 'name = v' then the lines    *)
(* that use the name.                                                       *)
With(v, F(_)) == F(v)

IsStr(x) == DOMAIN x = {"str"}
IsNumber(x) == DOMAIN x = {"hundredths"}

----------------------------------------------------------------------------
(* Code points *)
ch_0 == 48
ch_1 == 49
ch_9 == 57
ch_l == 108
ch_m == 109
ch_g == 103
ch_e == 101
ch_E == 69
ch_i == 105
ch_I == 73
ch_L == 76
ch_M == 77
ch_O == 79
ch_bar == 124
ch_jeong == 51221
ch_e_ko == 50640
ch_i_ko == 51060

IsDigit(c) == c \in 48..57

IsHangul(c) == c \in 44032..55203

IsSpace(c) == c \in (9..13) \cup (28..32) \cup {133, 160, 5760, 8232, 8233, 8239, 8287, 12288}
                  \cup (8192..8202)

(* \w of a Python str pattern, for the characters the model uses. *)
IsWord(c) == IsDigit(c) \/ c \in 65..90 \/ c \in 97..122 \/ c = 95 \/ IsHangul(c)
                \/ c \in 4352..4607

(* \b after position j of t (between t[j] and t[j+1]). *)
WordBoundaryAfter(t, j) ==
    LET before == j >= 1 /\ j <= Len(t) /\ IsWord(t[j])
        after  == j + 1 <= Len(t) /\ IsWord(t[j + 1])
    IN  before # after

----------------------------------------------------------------------------
(* _normalize_ocr *)

(* [`'"[\]<>･·] *)
NormStripChars == {96, 39, 34, 91, 93, 60, 62, 65381, 183}

(* The substitution rules of _normalize_ocr, in the order they are applied. *)
RuleDigitLDigit == "digit_l_digit"
RuleTab1Em9 == "tab_1em9"
RuleTab1Im == "tab_1im"
RuleDigitLm == "digit_lm"
RuleDigitM == "digit_m"

(* Length of the match of a rule starting at position i of t, 0 if none. *)
NormMatchLen(rule, t, i) ==
    CASE rule = RuleDigitLDigit ->
            IF i + 2 <= Len(t) /\ IsDigit(t[i]) /\ t[i + 1] = ch_l /\ IsDigit(t[i + 2])
            THEN 3 ELSE 0
      [] rule = RuleTab1Em9 ->
            IF i + 4 <= Len(t) /\ t[i] = ch_jeong /\ t[i + 1] = ch_1
               /\ t[i + 2] \in {ch_e_ko, ch_e, ch_E} /\ t[i + 3] \in {ch_m, ch_M}
               /\ t[i + 4] = ch_9 /\ WordBoundaryAfter(t, i + 4)
            THEN 5 ELSE 0
      [] rule = RuleTab1Im ->
            IF i + 3 <= Len(t) /\ t[i] = ch_jeong /\ t[i + 1] = ch_1
               /\ t[i + 2] \in {ch_i_ko, ch_i, ch_I, ch_l, ch_L} /\ t[i + 3] \in {ch_m, ch_M}
               /\ WordBoundaryAfter(t, i + 3)
            THEN 4 ELSE 0
      [] rule = RuleDigitLm ->
            IF i + 1 <= Len(t) /\ i > 1 /\ IsDigit(t[i - 1]) /\ t[i] = ch_l
               /\ t[i + 1] = ch_m /\ WordBoundaryAfter(t, i + 1)
            THEN 2 ELSE 0
      [] rule = RuleDigitM ->
            IF i > 1 /\ IsDigit(t[i - 1]) /\ t[i] = ch_m /\ WordBoundaryAfter(t, i)
            THEN 1 ELSE 0

NormReplacement(rule, t, i) ==
    CASE rule = RuleDigitLDigit -> <<t[i], ch_1, t[i + 2]>>
      [] rule = RuleTab1Em9 -> <<t[i], ch_1, ch_0, ch_m, ch_g>>
      [] rule = RuleTab1Im -> <<t[i], ch_1, ch_0, ch_m, ch_g>>
      [] rule = RuleDigitLm -> <<ch_1, ch_0, ch_m, ch_g>>
      [] rule = RuleDigitM -> <<ch_m, ch_g>>

(* re.sub: one left-to-right pass; the scan resumes after each match, so   *)
(* matches never overlap and replaced text is not rescanned.                *)
RECURSIVE NormSub(_, _, _)
NormSub(rule, t, i) ==
    IF i > Len(t) THEN <<>>
    ELSE LET n == NormMatchLen(rule, t, i)
         IN  IF n > 0
             THEN NormReplacement(rule, t, i) \o NormSub(rule, t, i + n)
             ELSE <<t[i]>> \o NormSub(rule, t, i + 1)

ReplaceChar(t, from, to) == [k \in 1..Len(t) |-> IF t[k] = from THEN to ELSE t[k]]

_normalize_ocr(s) ==
    LET t1 == SelectSeq(s, LAMBDA c : c \notin NormStripChars)
        t2 == SelectSeq(t1, LAMBDA c : ~IsSpace(c))
        t3 == NormSub(RuleDigitLDigit, t2, 1)
        t4 == ReplaceChar(ReplaceChar(t3, ch_O, ch_0), ch_bar, ch_1)
        t5 == NormSub(RuleTab1Em9, t4, 1)
        t6 == NormSub(RuleTab1Im, t5, 1)
        t7 == NormSub(RuleDigitLm, t6, 1)
        t8 == NormSub(RuleDigitM, t7, 1)
    IN  t8

----------------------------------------------------------------------------
(* String helpers: Python's `in`, str.startswith, on code-point sequences. *)
Min(a, b) == IF a <= b THEN a ELSE b

Max(a, b) == IF a >= b THEN a ELSE b

MatchesAt(sub, s, i) ==
    /\ i + Len(sub) - 1 <= Len(s)
    /\ \A k \in 1..Len(sub) : s[i + k - 1] = sub[k]

Contains(sub, s) == \E i \in 1..(Len(s) + 1) : MatchesAt(sub, s, i)

StartsWith(s, prefix) == MatchesAt(prefix, s, 1)

RECURSIVE Flatten(_)
Flatten(seqs) == IF seqs = <<>> THEN <<>> ELSE Head(seqs) \o Flatten(Tail(seqs))

----------------------------------------------------------------------------
(* Sets of str.  CPython iterates a set in an order fixed by the string    *)
(* hashes, which PYTHONHASHSEED randomises per process; seed stands for    *)
(* that choice: 0 iterates in ascending code-point order, 1 in descending. *)
LexLess(a, b) ==
    \E k \in 1..(Min(Len(a), Len(b)) + 1) :
        /\ \A j \in 1..(k - 1) : a[j] = b[j]
        /\ \/ (k = Len(a) + 1 /\ k <= Len(b))
           \/ (k <= Len(a) /\ k <= Len(b) /\ a[k] < b[k])

RECURSIVE Ascending(_)
Ascending(S) ==
    IF S = {} THEN <<>>
    ELSE LET least == CHOOSE x \in S : \A y \in S : x = y \/ LexLess(x, y)
         IN  <<least>> \o Ascending(S \ {least})

Reverse(q) == [k \in 1..Len(q) |-> q[Len(q) + 1 - k]]

IterationOrder(S, seed) == IF seed = 0 THEN Ascending(S) ELSE Reverse(Ascending(S))

Range(q) == {q[k] : k \in 1..Len(q)}

----------------------------------------------------------------------------
(* Hangul tokens, affixes, jamo *)

(* re.findall(r'[가-힣]+', s): the maximal runs of Hangul syllables, in order. *)
RECURSIVE HangulRuns(_, _, _)
HangulRuns(s, i, run) ==
    IF i > Len(s) THEN (IF run = <<>> THEN <<>> ELSE <<run>>)
    ELSE IF IsHangul(s[i]) THEN HangulRuns(s, i + 1, Append(run, s[i]))
    ELSE (IF run = <<>> THEN <<>> ELSE <<run>>) \o HangulRuns(s, i + 1, <<>>)

KoreanTokens(s) == HangulRuns(s, 1, <<>>)

(* _AFFIX_DROP_RE, alternatives in the order the pattern tries them. *)
AffixDrop ==
    <<<<49436, 48169>>, <<51109, 50857>>, <<54588, 50508>>, <<50640, 49828, 50508>>,
      <<83, 82>>, <<69, 82>>, <<79, 68>>, <<50640, 49828>>>>

(* _FORM_SUFFIX_RE *)
FormSuffix ==
    <<<<51221>>, <<52897, 49808>>, <<49884, 47101>>, <<54788, 53441>>,
      <<51221, 51228>>, <<51221, 48128>>>>

(* Length of the first alternative of alts that matches s at i, 0 if none. *)
FirstAltLen(alts, s, i) ==
    LET hits == {a \in 1..Len(alts) : MatchesAt(alts[a], s, i)}
    IN  IF hits = {} THEN 0
        ELSE Len(alts[CHOOSE a \in hits : \A b \in hits : a <= b])

RECURSIVE DropAffixes(_, _)
DropAffixes(s, i) ==
    IF i > Len(s) THEN <<>>
    ELSE LET n == FirstAltLen(AffixDrop, s, i)
         IN  IF n > 0 THEN DropAffixes(s, i + n)
             ELSE <<s[i]>> \o DropAffixes(s, i + 1)

(* (..)$ : the leftmost position from which an alternative reaches the end. *)
DropFormSuffix(s) ==
    LET starts == {i \in 1..Len(s) :
                      \E a \in 1..Len(FormSuffix) :
                          MatchesAt(FormSuffix[a], s, i) /\ i + Len(FormSuffix[a]) - 1 = Len(s)}
    IN  IF starts = {} THEN s
        ELSE SubSeq(s, 1, (CHOOSE i \in starts : \A j \in starts : i <= j) - 1)

_strip_affixes(token) == DropFormSuffix(DropAffixes(token, 1))

_prefix_ngrams(token) == {SubSeq(token, 1, k) : k \in 2..Min(Len(token), 4)}

(* One syllable U+AC00..U+D7A3 becomes onset, nucleus and, if any, coda. *)
JamoOf(code) ==
    LET syll  == code - 44032
        onset == syll \div 588
        nuc   == (syll % 588) \div 28
        coda  == syll % 28
    IN  IF IsHangul(code)
        THEN <<4352 + onset, 4449 + nuc>> \o (IF coda # 0 THEN <<4519 + coda>> ELSE <<>>)
        ELSE <<code>>

_to_jamo(s) == Flatten([k \in 1..Len(s) |-> JamoOf(s[k])])

_token_root(tok) == _to_jamo(_strip_affixes(tok))

(* The first longest token of each root, in iteration order. *)
_collapse_variants(tokens, seed) ==
    With(IterationOrder(tokens, seed), LAMBDA order :
    With([k \in 1..Len(order) |-> _token_root(order[k])], LAMBDA root :
        {order[k] : k \in {n \in 1..Len(order) :
            /\ root[n] # <<>>
            /\ \A j \in 1..Len(order) :
                  (j # n /\ root[j] = root[n])
                  => \/ Len(order[j]) < Len(order[n])
                     \/ (Len(order[j]) = Len(order[n]) /\ n < j)}}))

_roots(tokens) == {_token_root(t) : t \in tokens} \ {<<>>}

(* One row of the edit-distance table from the previous one.  The tests  *)
(* on Len make each cell and each row a value before the next is started. *)
RECURSIVE LevRow(_, _, _, _, _)
LevRow(ca, b, prev, cur, j) ==
    IF j > Len(b) THEN cur
    ELSE LET ins  == cur[j] + 1
             dele == prev[j + 1] + 1
             sub  == prev[j] + (IF ca # b[j] THEN 1 ELSE 0)
             next == Append(cur, Min(ins, Min(dele, sub)))
         IN  IF Len(next) = j + 1 THEN LevRow(ca, b, prev, next, j + 1) ELSE <<>>

RECURSIVE LevRows(_, _, _, _)
LevRows(a, b, prev, i) ==
    IF i > Len(a) THEN prev[Len(b) + 1]
    ELSE LET cur == LevRow(a[i], b, prev, <<i>>, 1)
         IN  IF Len(cur) = Len(b) + 1 THEN LevRows(a, b, cur, i + 1) ELSE 0 - 1

_levenshtein(a, b) ==
    IF a = b THEN 0
    ELSE IF a = <<>> THEN Len(b)
    ELSE IF b = <<>> THEN Len(a)
    ELSE LevRows(a, b, [k \in 1..(Len(b) + 1) |-> k - 1], 1)

(* Rationals [num, den] with den > 0 *)
Rat(n, d) == [num |-> n, den |-> d]

RatLeq(x, y) == x.num * y.den <= y.num * x.den

RatMax(x, y) == IF RatLeq(x, y) THEN y ELSE x

RatMin(x, y) == IF RatLeq(x, y) THEN x ELSE y

RatMul(x, y) == Rat(x.num * y.num, x.den * y.den)

RatAdd(x, y) == Rat(x.num * y.den + y.num * x.den, x.den * y.den)

_jamo_sim(a, b) ==
    With(_to_jamo(a), LAMBDA ja :
    With(_to_jamo(b), LAMBDA jb :
    With(Max(Len(ja), Len(jb)), LAMBDA L :
        IF L = 0 THEN Rat(0, 1)
        ELSE RatMax(Rat(0, 1), Rat(Max(2, L) - _levenshtein(ja, jb), Max(2, L))))))

(* _NOISE_TOKENS *)
NoiseTokens ==
    {<<51068>>, <<54924>>, <<51204>>, <<54980>>, <<49885, 51204>>, <<49885, 54980>>, <<48516>>,
     <<51221>>, <<52897, 49808>>, <<109, 103>>, <<109, 32, 103>>, <<48337, 51032, 50896>>,
     <<50689, 49688, 51613>>, <<48264, 54840>>, <<48373, 50557>>, <<50504, 45236>>,
     <<54588, 50508>>, <<49436, 48169>>, <<51109, 50857>>}

(* str.isdigit() on a token *)
IsDigitStr(tok) == tok # <<>> /\ \A k \in 1..Len(tok) : IsDigit(tok[k])

_is_noise_token(tok) == tok \in NoiseTokens \/ IsDigitStr(tok)

----------------------------------------------------------------------------
(* DrugLexicon.__init__ *)

RECURSIVE LStrip(_)
LStrip(s) == IF s # <<>> /\ IsSpace(Head(s)) THEN LStrip(Tail(s)) ELSE s

(* str.strip() *)
Strip(s) == Reverse(LStrip(Reverse(LStrip(s))))

(* str.split("|") *)
RECURSIVE SplitBar(_, _, _)
SplitBar(s, i, part) ==
    IF i > Len(s) THEN <<part>>
    ELSE IF s[i] = ch_bar THEN <<part>> \o SplitBar(s, i + 1, <<>>)
    ELSE SplitBar(s, i + 1, Append(part, s[i]))

(* [p.strip() for p in line.split("|") if p.strip()] *)
EntryParts(line) ==
    LET pieces == SplitBar(line, 1, <<>>)
    IN  SelectSeq([k \in 1..Len(pieces) |-> Strip(pieces[k])], LAMBDA q : q # <<>>)

(* The tokens one alias contributes before variants are collapsed. *)
TokensOf(t) ==
    IF Len(t) < 2 THEN {}
    ELSE With(_strip_affixes(t), LAMBDA base :
             (IF Len(base) >= 2 THEN {base} \cup _prefix_ngrams(base) ELSE {}) \cup {t})

AliasTokens(norm_alias) == UNION {TokensOf(t) : t \in Range(KoreanTokens(norm_alias))}

DrugEntry(parts, seed) ==
    With([k \in 1..Len(parts) |-> _normalize_ocr(parts[k])], LAMBDA normalized_aliases :
    With(_collapse_variants(UNION {AliasTokens(a) : a \in Range(normalized_aliases)}, seed),
         LAMBDA all_tokens :
        [canonical          |-> parts[1],
         aliases            |-> parts,
         tokens             |-> all_tokens,
         token_roots        |-> _roots(all_tokens),
         normalized_aliases |-> normalized_aliases,
         aliases_jamo       |-> [k \in 1..Len(parts) |-> _to_jamo(normalized_aliases[k])]]))

DrugLexicon(items, seed) ==
    With(SelectSeq([k \in 1..Len(items) |-> EntryParts(items[k])], LAMBDA parts : parts # <<>>),
         LAMBDA entries :
    With([k \in 1..Len(entries) |-> DrugEntry(entries[k], seed)], LAMBDA drugs :
        [drugs    |-> drugs,
         token_df |-> [r \in UNION {drugs[k].token_roots : k \in 1..Len(drugs)} |->
                          Cardinality({k \in 1..Len(drugs) : r \in drugs[k].token_roots})],
         N_drugs  |-> Max(1, Len(drugs))]))

(* A loader that reads comment lines as entries. *)
LoadLexiconKeepsComments(file, seed) ==
    IF file = None THEN None
    ELSE With(SelectSeq([k \in 1..Len(file.list) |-> Strip(file.list[k])],
                        LAMBDA ln : ln # <<>>),
              LAMBDA lines : IF lines # <<>> THEN DrugLexicon(lines, seed) ELSE None)

(* The lexicon field after MedicineAPIService.__init__: file is None when  *)
(* the path does not exist, else the list of the lines of the file.         *)
LoadLexicon(file, seed) ==
    IF file = None THEN None
    ELSE With(SelectSeq([k \in 1..Len(file.list) |-> Strip(file.list[k])],
                        LAMBDA ln : ln # <<>> /\ ln[1] # 35),
              LAMBDA lines : IF lines # <<>> THEN DrugLexicon(lines, seed) ELSE None)

----------------------------------------------------------------------------
(* DrugLexicon.match_from_ocr_lines *)

(* floor(8 * log2(n / d)) for n >= d, capped at 16: the largest k with     *)
(* 2^k * d^8 <= n^8.  math.log(x, 2) is held to 1/8 below its value; it is *)
(* exact where the result is a whole number.                                *)
RECURSIVE Log2Steps(_, _, _)
Log2Steps(target, cur, k) ==
    IF k = 16 \/ 2 * cur > target THEN k ELSE Log2Steps(target, 2 * cur, k + 1)

Log2Eighths(n, d) == Log2Steps(n * n * n * n * n * n * n * n, d * d * d * d * d * d * d * d, 0)

(* A boost from log2(N / df), without the + 1. *)
IdfBoostOfRatio(N, df) == RatMin(Rat(6, 10), Rat(16 + 2 * Log2Eighths(N, df), 80))

(* min(0.6, 0.2 + math.log(N / df + 1, 2) * 0.2) *)
IdfBoost(N, df) == RatMin(Rat(6, 10), Rat(16 + 2 * Log2Eighths(N + df, df), 80))

(* self.token_df.get(r, 1) *)
DfOf(lex, r) == IF r \in DOMAIN lex.token_df THEN lex.token_df[r] ELSE 1

(* What the loop body derives from the line before it looks at any drug. *)
LineView(line, seed) ==
    With(_normalize_ocr(line), LAMBDA norm_line :
    With(KoreanTokens(norm_line), LAMBDA raw_tokens :
    With({t \in Range(raw_tokens) : ~_is_noise_token(t)}, LAMBDA line_tokens_raw :
    With(_collapse_variants(line_tokens_raw, seed), LAMBDA line_tokens :
        [norm_line       |-> norm_line,
         raw_tokens      |-> raw_tokens,
         line_tokens_raw |-> line_tokens_raw,
         line_tokens     |-> line_tokens,
         line_roots      |-> _roots(line_tokens)]))))

(* [A] an alias contains the line or the line contains an alias *)
HardContainment(drug, norm_line) ==
    \E k \in 1..Len(drug.normalized_aliases) :
        LET alias == drug.normalized_aliases[k]
        IN  alias # <<>> /\ (Contains(alias, norm_line) \/ Contains(norm_line, alias))

(* [A] the prefix test: the first (alias, token) pair, aliases in list     *)
(* order and tokens in iteration order, that passes either test.            *)
NoBridge == [hit |-> FALSE, score |-> Rat(0, 1), added |-> {}]

(* tok.startswith(alias) and len(alias) >= 2 *)
TokInAlias(alias, tok) == StartsWith(tok, alias) /\ Len(alias) >= 2

(* alias.startswith(tok) and len(tok) >= 2 *)
AliasInTok(alias, tok) == StartsWith(alias, tok) /\ Len(tok) >= 2

AffixBridge(drug, line_tokens, seed) ==
    With(IterationOrder(line_tokens, seed), LAMBDA order :
    With(drug.normalized_aliases, LAMBDA aliases :
    With({h \in (1..Len(aliases)) \X (1..Len(order)) :
             TokInAlias(aliases[h[1]], order[h[2]]) \/ AliasInTok(aliases[h[1]], order[h[2]])},
         LAMBDA hits :
        IF hits = {} THEN NoBridge
        ELSE With(CHOOSE h \in hits :
                      \A g \in hits : h[1] < g[1] \/ (h[1] = g[1] /\ h[2] <= g[2]),
                  LAMBDA first :
                 IF TokInAlias(aliases[first[1]], order[first[2]])
                 THEN [hit |-> TRUE, score |-> Rat(95, 100),
                       added |-> {aliases[first[1]], order[first[2]]}]
                 ELSE [hit |-> TRUE, score |-> Rat(90, 100), added |-> {order[first[2]]}]))))

RECURSIVE RatMaxOf(_)
RatMaxOf(S) ==
    IF S = {} THEN Rat(0, 1)
    ELSE With(CHOOSE y \in S : TRUE, LAMBDA x : RatMax(x, RatMaxOf(S \ {x})))

(* [C] the best jamo similarity of an alias to the line or to a line token *)
MaxJamoSim(drug, view) ==
    RatMaxOf({_jamo_sim(drug.normalized_aliases[k], t) :
                 k \in 1..Len(drug.normalized_aliases),
                 t \in {view.norm_line} \cup view.line_tokens})

(* [D] *)
NoiseRatio(raw_tokens) ==
    IF raw_tokens # <<>>
    THEN Rat(Cardinality({k \in 1..Len(raw_tokens) : _is_noise_token(raw_tokens[k])}),
             Len(raw_tokens))
    ELSE Rat(0, 1)

(* [A] 0.95 on containment, else what the prefix test gives *)
ScoreA(drug, view, seed) ==
    IF HardContainment(drug, view.norm_line) THEN [hit |-> TRUE, score |-> Rat(95, 100), added |-> {}]
    ELSE AffixBridge(drug, view.line_tokens, seed)

(* The line tokens whose root is a root of the drug *)
MatchedByRoot(drug, view) ==
    With(view.line_roots \cap drug.token_roots, LAMBDA matched_roots :
        {t \in view.line_tokens : _token_root(t) \in matched_roots})

(* [B] the largest boost of a matched token, 0.0 when there is none *)
BestIdfBoost(lex, matched_tokens) ==
    RatMaxOf({IdfBoost(lex.N_drugs, DfOf(lex, _token_root(t))) : t \in matched_tokens})

ScoreB(scoreA, matched_tokens, idf_boost) ==
    IF matched_tokens # {}
    THEN RatMax(scoreA, RatAdd(IF Cardinality(matched_tokens) = 1 THEN Rat(6, 10) ELSE Rat(8, 10),
                               idf_boost))
    ELSE scoreA

(* [C] *)
ScoreC(scoreB, max_jamo_sim) ==
    IF RatLeq(Rat(85, 100), max_jamo_sim)
    THEN RatMax(scoreB, RatMul(Rat(92, 100), max_jamo_sim))
    ELSE IF RatLeq(Rat(70, 100), max_jamo_sim)
    THEN RatMax(scoreB, RatMul(Rat(80, 100), max_jamo_sim))
    ELSE scoreB

(* A threshold that every score reaches. *)
ThresholdZero(noise_ratio, matched_tokens, idf_boost) == Rat(0, 1)

(* [D] *)
Threshold(noise_ratio, matched_tokens, idf_boost) ==
    With(IF RatLeq(noise_ratio, Rat(5, 10)) THEN Rat(45, 100) ELSE Rat(50, 100),
         LAMBDA threshold :
        IF matched_tokens # {} /\ RatLeq(Rat(3, 10), idf_boost)
        THEN RatMin(threshold, Rat(40, 100)) ELSE threshold)

(* Score, threshold and matched tokens of one line against one drug. *)
PairScore(lex, drug, view, seed) ==
    With(ScoreA(drug, view, seed), LAMBDA a :
    With(MatchedByRoot(drug, view) \cup a.added, LAMBDA matched_tokens :
    With(BestIdfBoost(lex, matched_tokens), LAMBDA idf_boost :
    With(ScoreC(ScoreB(a.score, matched_tokens, idf_boost), MaxJamoSim(drug, view)),
         LAMBDA score :
    With(Threshold(NoiseRatio(view.raw_tokens), matched_tokens, idf_boost), LAMBDA threshold :
        [score          |-> score,
         threshold      |-> threshold,
         idf_boost      |-> idf_boost,
         matched_tokens |-> matched_tokens,
         accepted       |-> RatLeq(threshold, score)])))))

(* Mutant: the score is reported without min(score, 1.0). *)
ClampScoreAbsent(score) == score

(* min(score, 1.0) *)
ClampScore(score) == RatMin(score, Rat(1, 1))

(* round(x, 2) in hundredths.  The float nearest to a decimal tie lies     *)
(* above it for the ties a score can reach, except where the tie is a      *)
(* multiple of 1/8, which is held exactly and rounds to the even digit.     *)
Round2(x) ==
    LET down == (100 * x.num) \div x.den
        twice == 200 * x.num - 2 * down * x.den
    IN  IF twice < x.den THEN down
        ELSE IF twice > x.den THEN down + 1
        ELSE IF (8 * x.num) % x.den = 0 /\ down % 2 = 0 THEN down
        ELSE down + 1

(* The entries one line appends to results: an accepted drug is skipped if *)
(* an earlier accepted drug of the same line has its canonical name.        *)
LineResults(lex, line, line_idx, seed) ==
    With(LineView(line, seed), LAMBDA view :
    With(lex.drugs, LAMBDA drugs :
    With([k \in 1..Len(drugs) |-> PairScore(lex, drugs[k], view, seed)], LAMBDA pairs :
    With(SelectSeq([k \in 1..Len(drugs) |-> k],
                   LAMBDA k : /\ pairs[k].accepted
                              /\ \A j \in 1..(k - 1) :
                                    pairs[j].accepted
                                    => drugs[j].canonical # drugs[k].canonical),
         LAMBDA kept :
        IF view.line_tokens_raw = {} THEN <<>>
        ELSE [n \in 1..Len(kept) |->
                [canonical      |-> drugs[kept[n]].canonical,
                 aliases        |-> drugs[kept[n]].aliases,
                 score          |-> Round2(ClampScore(pairs[kept[n]].score)),
                 matched_tokens |-> pairs[kept[n]].matched_tokens,
                 matched_line   |-> line,
                 line_index     |-> line_idx]]))))

(* Mutant: by_canon keeps every entry of results. *)
BestByCanonKeepsAll(results) == results

(* by_canon: one entry per canonical name, in order of first appearance;   *)
(* a later entry replaces it only with a strictly greater score.            *)
BestByCanon(results) ==
    LET Best(k) ==
            \A j \in 1..Len(results) :
                (j # k /\ results[j].canonical = results[k].canonical)
                => \/ results[j].score < results[k].score
                   \/ (results[j].score = results[k].score /\ k < j)
        First(k) == \A j \in 1..(k - 1) : results[j].canonical # results[k].canonical
        firsts == SelectSeq([k \in 1..Len(results) |-> k], First)
    IN  [n \in 1..Len(firsts) |->
            results[CHOOSE k \in 1..Len(results) :
                        results[k].canonical = results[firsts[n]].canonical /\ Best(k)]]

(* Mutant: the final list is not sorted. *)
SortKeepsOrder(items) == items

(* list.sort(key=score, reverse=True): stable, equal scores keep their order *)
SortByScoreDesc(items) ==
    LET Rank(k) == 1 + Cardinality({j \in 1..Len(items) :
                        \/ items[j].score > items[k].score
                        \/ (items[j].score = items[k].score /\ j < k)})
    IN  [n \in 1..Len(items) |-> items[CHOOSE k \in 1..Len(items) : Rank(k) = n]]

match_from_ocr_lines(lex, ocr_lines, seed) ==
    LET results == Flatten([i \in 1..Len(ocr_lines) |->
                               LineResults(lex, ocr_lines[i], i - 1, seed)])
    IN  SortByScoreDesc(BestByCanon(results))

----------------------------------------------------------------------------
(* Timing codes and labels *)
s_sikhu == <<49885, 54980>>
s_sikjeon == <<49885, 51204>>
s_sikgan == <<49885, 44036>>
s_chwichimjeon == <<52712, 52840, 51204>>
s_gongbok == <<44277, 48373>>
s_jeongbo_eopseum == <<51221, 48372, 50630, 51020>>
s_chwichim_jeon == <<52712, 52840, 32, 51204>>
s_achim == <<50500, 52840>>
s_jeomsim == <<51216, 49900>>
s_jeonyeok == <<51200, 45377>>
s_ilban_uiyakpum == <<51068, 48152, 51032, 50557, 54408>>
s_no_medicine == <<50557, 32, 51221, 48372, 32, 50630, 51020, 32, 40, 76, 101, 120, 105, 99,
                   111, 110, 32, 54869, 51064, 32, 54596, 50836, 41>>
s_parse_error == <<54028, 49905, 32, 50724, 47448>>

----------------------------------------------------------------------------
(* Regular-expression pieces shared by the parsers *)

(* \s* from position i: the first position at or after i that holds no space. *)
RECURSIVE SkipSpaces(_, _)
SkipSpaces(s, i) == IF i <= Len(s) /\ IsSpace(s[i]) THEN SkipSpaces(s, i + 1) ELSE i

(* \d+ from position i: the position after the run of digits (i if none). *)
RECURSIVE DigitsEnd(_, _)
DigitsEnd(s, i) == IF i <= Len(s) /\ IsDigit(s[i]) THEN DigitsEnd(s, i + 1) ELSE i

(* int() of the digits s[i..j-1] *)
RECURSIVE IntOf(_, _, _)
IntOf(s, i, j) == IF j <= i THEN 0 ELSE 10 * IntOf(s, i, j - 1) + (s[j - 1] - 48)

(* Index of the first alternative of alts that matches s at i, 0 if none. *)
FirstAlt(alts, s, i) ==
    LET hits == {a \in 1..Len(alts) : MatchesAt(alts[a], s, i)}
    IN  IF hits = {} THEN 0 ELSE CHOOSE a \in hits : \A b \in hits : a <= b

(* Literals separated by \s*, from position i: the position after the      *)
(* match, 0 if there is none.                                               *)
RECURSIVE LitSeqEnd(_, _, _)
LitSeqEnd(parts, s, i) ==
    IF parts = <<>> THEN i
    ELSE IF MatchesAt(Head(parts), s, i)
         THEN IF Len(parts) = 1 THEN i + Len(Head(parts))
              ELSE LitSeqEnd(Tail(parts), s, SkipSpaces(s, i + Len(Head(parts))))
         ELSE 0

SearchLitSeq(parts, s) == \E i \in 1..Len(s) : LitSeqEnd(parts, s, i) > 0

----------------------------------------------------------------------------
(* _is_noise_line *)
_KO_NOISE_KEYWORDS ==
    {<<54872, 51088, 51221, 48372>>, <<48337, 50896, 51221, 48372>>, <<50689, 49688, 51613>>,
     <<54788, 44552>>, <<54788, 44552, 50689, 49688, 51613>>,
     <<49324, 50629, 51088, 46321, 47197>>, <<49324, 50629, 51109, 49548, 51116, 51648>>,
     <<48156, 54665, 51068>>, <<44368, 48512, 48264, 54840>>, <<50557, 51228, 48708>>,
     <<48376, 51064, 48512, 45812>>, <<48372, 54744, 51088, 48512, 45812>>,
     <<52509, 49688, 45225>>, <<51452, 51032, 49324, 54637>>, <<48373, 50557, 50504, 45236>>,
     <<50557, 54408, 49324, 51652>>, <<50557, 54408, 47749>>, <<53804, 50557, 47049>>,
     <<54943, 49688>>, <<51068, 49688>>, <<54364, 49884, 45824, 47196, 48373, 50857>>,
     <<50500, 52840>>, <<51216, 49900>>, <<51200, 45377>>, <<52712, 52840, 51204>>,
     <<50557, 44397>>, <<51312, 51228, 50557>>, <<48373, 50557>>,
     <<51312, 51228, 51068, 51088>>, <<48156, 54665, 44592, 44288>>,
     <<52509, 49688, 45225, 44552, 50529>>, <<54788, 44552, 49849, 51064>>,
     <<50689, 49688, 51613, 48264, 54840>>,
     <<49324, 50629, 51088, 46321, 47197, 48264, 54840>>,
     <<48373, 50857, 50756, 47308, 51068>>,
     <<53804, 50557, 47049, 54943, 49688, 51068, 49688>>, <<49373, 47532, 53685, 50640>>,
     <<54952, 44284>>, <<51068, 48152>>, <<51228, 50752>>}

AllDigits(t, i, j) == \A k \in i..j : IsDigit(t[k])

(* \d{2,}원 *)
IsCurrencyAmount(t) == Len(t) >= 3 /\ t[Len(t)] = 50896 /\ AllDigits(t, 1, Len(t) - 1)

(* digits, then groups of the given sizes, each after an optional dash:    *)
(* lead is the least number of leading digits, exact says it is the only.  *)
IsDashedNumber(t, lead, exact, g1, g2) ==
    \E a \in {0, 1}, b \in {0, 1} :
        LET n == Len(t) - a - b - g1 - g2
        IN  /\ n >= lead
            /\ exact => n = lead
            /\ AllDigits(t, 1, n)
            /\ a = 1 => t[n + 1] = 45
            /\ AllDigits(t, n + a + 1, n + a + g1)
            /\ b = 1 => t[n + a + g1 + 1] = 45
            /\ AllDigits(t, n + a + g1 + b + 1, Len(t))

_is_noise_line(t) ==
    \/ Len(t) <= 1
    \/ \E k \in _KO_NOISE_KEYWORDS : Contains(k, t)
    \/ IsCurrencyAmount(t)
    \/ IsDashedNumber(t, 3, FALSE, 2, 5)
    \/ (Len(t) = 8 /\ AllDigits(t, 1, 8))
    \/ IsDashedNumber(t, 4, TRUE, 2, 2)

----------------------------------------------------------------------------
(* _extract_dosage_info *)

(* mg|g|ml|%|밀리그램 *)
DosageUnits == <<<<109, 103>>, <<103>>, <<109, 108>>, <<37>>, <<48128, 47532, 44536, 47016>>>>

(* Digits, an optional '.digits', spaces and a unit, tried at position i:  *)
(* the text it returns, or <<>>.                                            *)
DosageAt(line, i) ==
    LET e1   == DigitsEnd(line, i)
        e2   == IF e1 <= Len(line) /\ line[e1] = 46 THEN DigitsEnd(line, e1 + 1) ELSE e1
        frac == e2 > e1 + 1
        uF   == FirstAlt(DosageUnits, line, SkipSpaces(line, e2))
        uI   == FirstAlt(DosageUnits, line, SkipSpaces(line, e1))
        Unit(u) == IF u = 5 THEN DosageUnits[1] ELSE DosageUnits[u]
    IN  IF e1 = i THEN <<>>
        ELSE IF frac /\ uF > 0 THEN SubSeq(line, i, e2 - 1) \o Unit(uF)
        ELSE IF uI > 0 THEN SubSeq(line, i, e1 - 1) \o Unit(uI)
        ELSE <<>>

(* re.search on one line: the leftmost position that matches *)
DosageIn(line) ==
    With({i \in 1..Len(line) : DosageAt(line, i) # <<>>}, LAMBDA hits :
        IF hits = {} THEN <<>> ELSE DosageAt(line, CHOOSE i \in hits : \A j \in hits : i <= j))

(* The dosage text of the first line of lines[idx-2 : idx+3] that has one; *)
(* <<>> stands for the None returned when no line has one.                  *)
_extract_dosage_info(lines, target_line_idx) ==
    With(SelectSeq([k \in 1..Len(lines) |->
                       IF k > Max(0, target_line_idx - 2) /\ k <= Min(Len(lines), target_line_idx + 3)
                       THEN DosageIn(lines[k]) ELSE <<>>],
                   LAMBDA d : d # <<>>),
         LAMBDA found : IF found = <<>> THEN <<>> ELSE found[1])

----------------------------------------------------------------------------
(* _split_usage_by_age *)

(* re.split(r'[\n\.]+', text) *)
RECURSIVE SplitSentences(_, _, _)
SplitSentences(s, i, part) ==
    IF i > Len(s) THEN <<part>>
    ELSE IF s[i] \in {10, 46}
         THEN IF i > 1 /\ s[i - 1] \in {10, 46} THEN SplitSentences(s, i + 1, part)
              ELSE <<part>> \o SplitSentences(s, i + 1, <<>>)
         ELSE SplitSentences(s, i + 1, Append(part, s[i]))

(* ' '.join(lines) *)
RECURSIVE JoinSpace(_)
JoinSpace(lines) ==
    IF lines = <<>> THEN <<>>
    ELSE IF Len(lines) = 1 THEN lines[1]
    ELSE lines[1] \o <<32>> \o JoinSpace(Tail(lines))

(* 만\s*8세|만\s*15세\s*미만|소아|어린이 *)
HasChildMarker(s) ==
    \/ SearchLitSeq(<<<<47564>>, <<56, 49464>>>>, s)
    \/ SearchLitSeq(<<<<47564>>, <<49, 53, 49464>>, <<48120, 47564>>>>, s)
    \/ Contains(<<49548, 50500>>, s)
    \/ Contains(<<50612, 47536, 51060>>, s)

(* 성인|만\s*15세\s*이상 *)
HasAdultMarker(s) ==
    \/ Contains(<<49457, 51064>>, s)
    \/ SearchLitSeq(<<<<47564>>, <<49, 53, 49464>>, <<51060, 49345>>>>, s)

(* None, or the sentences joined by a space; <<>> stands for the None, as  *)
(* a joined block is never empty.                                           *)
JoinedOrNone(lines) == IF lines # <<>> THEN JoinSpace(lines) ELSE <<>>

(* The non-empty stripped pieces of the text *)
UsageSentences(usage_text) ==
    With(SplitSentences(usage_text, 1, <<>>), LAMBDA pieces :
        SelectSeq([k \in 1..Len(pieces) |-> Strip(pieces[k])], LAMBDA q : q # <<>>))

(* A split that takes the whole text for the adult's. *)
WholeTextAsAdult(usage_text) == [child |-> <<>>, adult |-> usage_text]

_split_usage_by_age(usage_text) ==
    IF usage_text = <<>> THEN [child |-> <<>>, adult |-> <<>>]
    ELSE With(UsageSentences(usage_text), LAMBDA lines :
             [child |-> JoinedOrNone(SelectSeq(lines, HasChildMarker)),
              adult |-> JoinedOrNone(SelectSeq(lines, HasAdultMarker))])

----------------------------------------------------------------------------
(* _parse_usage_ranges *)

(* An int field that is None. \d+ never yields a negative number. *)
NoInt == 0 - 1

EmptyRanges ==
    [dose_range |-> [min |-> NoInt, max |-> NoInt, unit |-> <<>>],
     freq_range |-> [min |-> NoInt, max |-> NoInt],
     timing     |-> <<>>]

(* [세요]* *)
RECURSIVE SkipSeYo(_, _)
SkipSeYo(s, i) == IF i <= Len(s) /\ s[i] \in {49464, 50836} THEN SkipSeYo(s, i + 1) ELSE i

(* [^가-힣A-Za-z0-9] *)
IsGapChar(c) == ~(IsHangul(c) \/ c \in 65..90 \/ c \in 97..122 \/ c \in 48..57)

RECURSIVE GapEnd(_, _)
GapEnd(s, i) == IF i <= Len(s) /\ IsGapChar(s[i]) THEN GapEnd(s, i + 1) ELSE i

(* 공복[^가-힣A-Za-z0-9]{0,5}을\s*피하[세요]*|빈\s*속을\s*피하[세요]* at i:    *)
(* the position after the match, 0 if there is none.                        *)
AvoidEmptyStomachEnd(s, i) ==
    LET g  == GapEnd(s, i + 2)
        e1 == IF MatchesAt(<<44277, 48373>>, s, i) /\ g - (i + 2) <= 5
              THEN LitSeqEnd(<<<<51012>>, <<54588, 54616>>>>, s, g) ELSE 0
        e2 == LitSeqEnd(<<<<48712>>, <<49549, 51012>>, <<54588, 54616>>>>, s, i)
    IN  IF e1 > 0 THEN SkipSeYo(s, e1)
        ELSE IF e2 > 0 THEN SkipSeYo(s, e2)
        ELSE 0

RECURSIVE RewriteAvoidEmptyStomach(_, _)
RewriteAvoidEmptyStomach(s, i) ==
    IF i > Len(s) THEN <<>>
    ELSE LET e == AvoidEmptyStomachEnd(s, i)
         IN  IF e > 0 THEN <<49885, 54980>> \o RewriteAvoidEmptyStomach(s, e)
             ELSE <<s[i]>> \o RewriteAvoidEmptyStomach(s, i + 1)

(* 정|캡슐|포|ml|mL *)
DoseUnits == <<<<51221>>, <<52897, 49808>>, <<54252>>, <<109, 108>>, <<109, 76>>>>

(* 회|번 *)
FreqUnits == <<<<54924>>, <<48264>>>>

(* Spaces and a unit and, if trailers is not empty, spaces and a trailer,  *)
(* from position j:                                                        *)
(* the index of the unit, 0 if there is no match.                           *)
UnitAfter(s, j, units, trailers) ==
    LET at == SkipSpaces(s, j)
        u  == FirstAlt(units, s, at)
    IN  IF u = 0 THEN 0
        ELSE IF trailers = <<>> THEN u
        ELSE IF FirstAlt(trailers, s, SkipSpaces(s, at + Len(units[u]))) > 0 THEN u
        ELSE 0

(* A number, an optional '~ number', spaces and a unit, from position i;   *)
(* the range part is tried first and given up if what follows it does not  *)
(* match.                                                                   *)
NumberRangeAt(s, i, units, trailers) ==
    LET e1 == DigitsEnd(s, i)
        t  == SkipSpaces(s, e1)
        j2 == SkipSpaces(s, t + 1)
        e2 == DigitsEnd(s, j2)
        ranged == e1 > i /\ t <= Len(s) /\ s[t] = 126 /\ e2 > j2
        uR == IF ranged THEN UnitAfter(s, e2, units, trailers) ELSE 0
        uS == IF e1 > i THEN UnitAfter(s, e1, units, trailers) ELSE 0
    IN  IF uR > 0
        THEN [ok |-> TRUE, lo |-> IntOf(s, i, e1), hi |-> IntOf(s, j2, e2), unit |-> units[uR]]
        ELSE IF uS > 0
        THEN [ok |-> TRUE, lo |-> IntOf(s, i, e1), hi |-> IntOf(s, i, e1), unit |-> units[uS]]
        ELSE [ok |-> FALSE, lo |-> NoInt, hi |-> NoInt, unit |-> <<>>]

NoMatch == [ok |-> FALSE, lo |-> NoInt, hi |-> NoInt, unit |-> <<>>]

(* The match at the leftmost of the positions where At(i) matches. *)
LeftmostMatch(s, At(_)) ==
    LET hits == {i \in 1..Len(s) : At(i).ok}
    IN  IF hits = {} THEN NoMatch ELSE At(CHOOSE i \in hits : \A j \in hits : i <= j)

(* '1회', spaces, an optional '에' and spaces, then a number or range and   *)
(* one of the units 정, 캡슐, 포, ml, mL.                                   *)
DosePerTake(s) ==
    LeftmostMatch(s, LAMBDA i :
        IF MatchesAt(<<49, 54924>>, s, i)
        THEN LET j == SkipSpaces(s, i + 2)
                 k == IF j <= Len(s) /\ s[j] = 50640 THEN SkipSpaces(s, j + 1) ELSE j
             IN  NumberRangeAt(s, k, DoseUnits, <<>>)
        ELSE NoMatch)

(* A number or range, one of the units 정, 캡슐, 포, ml, mL, then '씩'. *)
DoseEach(s) == LeftmostMatch(s, LAMBDA i : NumberRangeAt(s, i, DoseUnits, <<<<50473>>>>))

(* '1일', '하루' or '매일', spaces, a number or range, then '회' or '번'. *)
FreqPerDay(s) ==
    LeftmostMatch(s, LAMBDA i :
        IF FirstAlt(<<<<49, 51068>>, <<54616, 47336>>, <<47588, 51068>>>>, s, i) > 0
        THEN NumberRangeAt(s, SkipSpaces(s, i + 2), FreqUnits, <<>>)
        ELSE NoMatch)

(* A number or range, '회' or '번', spaces, then '복용' or '투여'. *)
FreqTaken(s) ==
    LeftmostMatch(s, LAMBDA i :
        NumberRangeAt(s, i, FreqUnits, <<<<48373, 50857>>, <<53804, 50668>>>>))

(* A classification that looks for the before-meal marker first. *)
TimingBeforeMealFirst(norm) ==
    IF Contains(s_sikjeon, norm) THEN s_sikjeon
    ELSE IF Contains(s_sikhu, norm) THEN s_sikhu
    ELSE IF Contains(s_sikgan, norm) THEN s_sikgan
    ELSE IF SearchLitSeq(<<<<52712, 52840>>, <<51204>>>>, norm) THEN s_chwichimjeon
    ELSE IF Contains(s_gongbok, norm) THEN s_gongbok
    ELSE <<>>

TimingOf(norm) ==
    IF Contains(s_sikhu, norm) THEN s_sikhu
    ELSE IF Contains(s_sikjeon, norm) THEN s_sikjeon
    ELSE IF Contains(s_sikgan, norm) THEN s_sikgan
    ELSE IF SearchLitSeq(<<<<52712, 52840>>, <<51204>>>>, norm) THEN s_chwichimjeon
    ELSE IF Contains(s_gongbok, norm) THEN s_gongbok
    ELSE <<>>

(* The first pattern that matches: a, else b *)
FirstMatch(a, b) == IF a.ok THEN a ELSE b

(* A dose range that is 0 where no pattern matched. *)
DoseRangeZeroWhenAbsent(m) ==
    IF m.ok THEN [min |-> m.lo, max |-> m.hi, unit |-> m.unit]
    ELSE [min |-> 0, max |-> 0, unit |-> <<>>]

DoseRange(m) ==
    IF m.ok THEN [min |-> m.lo, max |-> m.hi, unit |-> m.unit] ELSE EmptyRanges.dose_range

FreqRange(m) == IF m.ok THEN [min |-> m.lo, max |-> m.hi] ELSE EmptyRanges.freq_range

_parse_usage_ranges(usage_text) ==
    IF usage_text = <<>> THEN EmptyRanges
    ELSE With(RewriteAvoidEmptyStomach(usage_text, 1), LAMBDA norm :
             [dose_range |-> DoseRange(FirstMatch(DosePerTake(norm), DoseEach(norm))),
              freq_range |-> FreqRange(FirstMatch(FreqPerDay(norm), FreqTaken(norm))),
              timing     |-> TimingOf(norm)])

----------------------------------------------------------------------------
(* get_medicine_info *)

(* '용법용량 정보' *)
s_dummy_usage == <<50857, 48277, 50857, 47049, 32, 51221, 48372>>

(* Of the dict get_medicine_info returns, the two keys parse_prescription  *)
(* reads.                                                                   *)
_get_dummy_medicine_info == [usage |-> Str(s_dummy_usage), classification |-> s_ilban_uiyakpum]

(* The reply built from items[0]: usage is the item's useMethodQesitm,     *)
(* whatever JSON value that is; classification is its etcOtcName, or the   *)
(* default when the item has none (<<>>).                                   *)
ItemInfo(item) ==
    [usage          |-> item.useMethodQesitm,
     classification |-> IF item.etcOtcName # <<>> THEN item.etcOtcName ELSE s_ilban_uiyakpum]

(* What one call can return: without a key the dummy; with a key the dummy *)
(* when the request raises, None when the reply has no item, else the      *)
(* reply built from the first item.                                         *)
get_medicine_info(key, items) ==
    IF key = "" THEN {_get_dummy_medicine_info}
    ELSE {_get_dummy_medicine_info, None} \cup {ItemInfo(item) : item \in items}

----------------------------------------------------------------------------
(* parse_prescription *)

(* The dict {} *)
EmptyDict == [empty |-> TRUE]

(* 'x or y' on two optional ints and on two strs *)
OrInt(x, y) == IF x # NoInt /\ x # 0 THEN x ELSE y
OrStr(x, y) == IF x # <<>> THEN x ELSE y

(* scores[idx] if (scores and idx < len(scores)) else None, idx from 0 *)
ScoreAt(scores, idx) ==
    IF scores # None /\ scores.list # <<>> /\ idx < Len(scores.list)
    THEN scores.list[idx + 1] ELSE None

(* A confidence floor of 0.55 *)
BelowConfidenceAt55(sc) == sc # None /\ sc.hundredths < 55

(* sc is not None and sc < 0.50 *)
BelowConfidence(sc) == sc # None /\ sc.hundredths < 50

(* Step 1.  len(texts) raises on None and _normalize_ocr on a non-str.     *)
PreprocessRaises(texts) ==
    \/ texts = None
    \/ \E i \in 1..Len(texts.list) : ~IsStr(texts.list[i])

KeepsLine(norm, sc) == norm # <<>> /\ ~BelowConfidence(sc) /\ ~_is_noise_line(norm)

clean_lines(texts, scores) ==
    With([i \in 1..Len(texts.list) |-> _normalize_ocr(texts.list[i].str)], LAMBDA norm :
    With(SelectSeq([i \in 1..Len(norm) |-> i],
                   LAMBDA i : KeepsLine(norm[i], ScoreAt(scores, i - 1))),
         LAMBDA kept : [n \in 1..Len(kept) |-> norm[kept[n]]]))

(* Step 2.  One candidate per canonical name of the matches. *)
DisplayName(canonical, dosage) ==
    IF dosage # <<>> THEN canonical \o <<32>> \o dosage ELSE canonical

Candidate(m, lines) ==
    [canonical    |-> m.canonical,
     display_name |-> DisplayName(m.canonical, _extract_dosage_info(lines, m.line_index)),
     score        |-> m.score,
     matched_line |-> m.matched_line,
     line_index   |-> m.line_index]

Candidates(lex, lines, seed) ==
    IF lex = None THEN <<>>
    ELSE With(BestByCanon(match_from_ocr_lines(lex, lines, seed)), LAMBDA best :
             [n \in 1..Len(best) |-> Candidate(best[n], lines)])

(* Step 3.  The record of one candidate from what its lookup returned. *)
(* api_info.get('usage', '') or '': a number other than 0 stays as it is   *)
(* and re.split raises on it.                                               *)
UsageIsFalsy(usage) ==
    \/ usage = None
    \/ IsStr(usage) /\ usage.str = <<>>
    \/ IsNumber(usage) /\ usage.hundredths = 0

RecordRaises(api_info) ==
    api_info # None /\ ~UsageIsFalsy(api_info.usage) /\ ~IsStr(api_info.usage)

UsageText(api_info) == IF UsageIsFalsy(api_info.usage) THEN <<>> ELSE api_info.usage.str

RangesOf(block) == IF block # <<>> THEN _parse_usage_ranges(block) ELSE EmptyRanges

AgeRange(age_min, age_max, ranges) ==
    [age_min |-> age_min, age_max |-> age_max, dose_range |-> ranges.dose_range,
     freq_range |-> ranges.freq_range, timing |-> ranges.timing]

(* A record that is taken once a day when nothing is known of it. *)
UnresolvedRecordOnceADay(name) ==
    [name |-> name, per_dose |-> 0, unit |-> <<>>, frequency |-> 1,
     timing |-> s_jeongbo_eopseum, duration |-> 0, ranges |-> EmptyDict,
     details |-> [classification |-> s_ilban_uiyakpum]]

UnresolvedRecord(name) ==
    [name |-> name, per_dose |-> 0, unit |-> <<>>, frequency |-> 0,
     timing |-> s_jeongbo_eopseum, duration |-> 0, ranges |-> EmptyDict,
     details |-> [classification |-> s_ilban_uiyakpum]]

ResolvedRecord(name, classification, child_ranges, adult_ranges) ==
    [name      |-> name,
     per_dose  |-> OrInt(adult_ranges.dose_range.max, OrInt(child_ranges.dose_range.max, 0)),
     unit      |-> OrStr(adult_ranges.dose_range.unit, child_ranges.dose_range.unit),
     frequency |-> OrInt(adult_ranges.freq_range.max, OrInt(child_ranges.freq_range.max, 0)),
     timing    |-> OrStr(adult_ranges.timing, OrStr(child_ranges.timing, s_sikhu)),
     duration  |-> 0,
     ranges    |-> [child |-> AgeRange(8, 14, child_ranges),
                    adult |-> AgeRange(15, NoInt, adult_ranges)],
     details   |-> [classification |-> classification]]

MedicineRecord(cand, api_info) ==
    IF api_info = None THEN UnresolvedRecord(cand.display_name)
    ELSE With(_split_usage_by_age(UsageText(api_info)), LAMBDA age_blocks :
             ResolvedRecord(cand.display_name, api_info.classification,
                            RangesOf(age_blocks.child), RangesOf(age_blocks.adult)))

(* Mutant: the record of the except branch asks for one take a day. *)
ParseErrorResultOnceADay ==
    [medicines  |-> <<[name |-> s_parse_error, per_dose |-> 0, unit |-> <<>>, frequency |-> 1,
                       timing |-> s_jeongbo_eopseum, duration |-> 0, ranges |-> EmptyDict,
                       details |-> [classification |-> s_ilban_uiyakpum]]>>,
     candidates |-> <<>>]

(* The result of the except branch *)
ParseErrorResult == [medicines |-> <<UnresolvedRecord(s_parse_error)>>, candidates |-> <<>>]

(* The lookups made: all of them, or those up to the first whose reply     *)
(* makes step 3 raise.                                                      *)
LookupsMade(candidates, replies) ==
    With({k \in 1..Len(candidates) : RecordRaises(replies[k])}, LAMBDA bad :
    With(IF bad = {} THEN Len(candidates) ELSE CHOOSE k \in bad : \A j \in bad : k <= j,
         LAMBDA n : [k \in 1..n |-> [name |-> candidates[k].canonical, info |-> replies[k]]]))

(* Steps 1 and 2: the candidates; none if step 1 raises. *)
CandidatesOf(lex, texts, scores, seed) ==
    IF PreprocessRaises(texts) THEN <<>>
    ELSE Candidates(lex, clean_lines(texts, scores), seed)

(* Mutant: 'if not medicines' is missing, so no sentinel record is added. *)
ParseResultWithoutSentinel(texts, candidates, replies) ==
    IF PreprocessRaises(texts) THEN ParseErrorResult
    ELSE IF \E k \in 1..Len(candidates) : RecordRaises(replies[k]) THEN ParseErrorResult
    ELSE [medicines  |-> [k \in 1..Len(candidates) |-> MedicineRecord(candidates[k], replies[k])],
          candidates |-> candidates]

(* Step 3 and the return, from the candidates and the replies to their     *)
(* lookups.                                                                 *)
ParseResult(texts, candidates, replies) ==
    IF PreprocessRaises(texts) THEN ParseErrorResult
    ELSE IF \E k \in 1..Len(candidates) : RecordRaises(replies[k]) THEN ParseErrorResult
    ELSE IF candidates = <<>>
    THEN [medicines |-> <<UnresolvedRecord(s_no_medicine)>>, candidates |-> candidates]
    ELSE [medicines  |-> [k \in 1..Len(candidates) |-> MedicineRecord(candidates[k], replies[k])],
          candidates |-> candidates]

(* The value parse_prescription returns when its lookups get replies. *)
parse_prescription(lex, texts, scores, seed, replies) ==
    ParseResult(texts, CandidatesOf(lex, texts, scores, seed), replies)

----------------------------------------------------------------------------
(* generate_alarms *)
DefaultMealTimes ==
    [breakfast |-> [hour |-> 8, minute |-> 0],
     lunch     |-> [hour |-> 12, minute |-> 0],
     dinner    |-> [hour |-> 19, minute |-> 0]]

meal_times_order == <<"breakfast", "lunch", "dinner">>

meal_names == [breakfast |-> s_achim, lunch |-> s_jeomsim, dinner |-> s_jeonyeok]

(* f'{n:02d}' for 0 <= n <= 99 *)
Format02d(n) == <<48 + (n \div 10), 48 + (n % 10)>>

(* Mutant: the skip test written as a sign test. *)
SkipsRecordIfNegative(med) == med.frequency < 0

(* The record is skipped before its timing is looked at. *)
SkipsRecord(med) == med.frequency = 0

OffsetMinutes(timing) ==
    IF Contains(s_sikhu, timing) THEN 30
    ELSE IF Contains(s_sikjeon, timing) THEN 0 - 30
    ELSE IF Contains(s_sikgan, timing) THEN 120
    ELSE 0

(* The elif chain reaches the bedtime branch only past the three meal tests. *)
TakesBedtimeBranch(timing) ==
    /\ ~Contains(s_sikhu, timing)
    /\ ~Contains(s_sikjeon, timing)
    /\ ~Contains(s_sikgan, timing)
    /\ Contains(s_chwichimjeon, timing)

BedtimeAlarm(med) ==
    [time      |-> <<50, 50, 58, 48, 48>>,
     condition |-> s_chwichim_jeon,
     medicine  |-> med.name,
     per_dose  |-> med.per_dose,
     meal      |-> "bedtime"]

(* Mutant: the cap written as 2. *)
SlotCountCappedAtTwo(freq) == Max(0, Min(freq, 2))

(* range(min(freq, 3)) *)
SlotCount(freq) == Max(0, Min(freq, 3))

(* Mutant: the hour is not reduced modulo 24. *)
AlarmClockNoWrap(base_time, offset_minutes) ==
    LET total_minutes == base_time.hour * 60 + base_time.minute + offset_minutes
        alarm_hour    == total_minutes \div 60
        alarm_minute  == total_minutes % 60
    IN  Format02d(alarm_hour) \o <<58>> \o Format02d(alarm_minute)

AlarmClock(base_time, offset_minutes) ==
    LET total_minutes == base_time.hour * 60 + base_time.minute + offset_minutes
        alarm_hour    == (total_minutes \div 60) % 24
        alarm_minute  == total_minutes % 60
    IN  Format02d(alarm_hour) \o <<58>> \o Format02d(alarm_minute)

MealAlarm(med, i, meal_times) ==
    LET meal_key == meal_times_order[i]
    IN  [time      |-> AlarmClock(meal_times[meal_key], OffsetMinutes(med.timing)),
         condition |-> IF med.timing # s_jeongbo_eopseum
                       THEN meal_names[meal_key] \o <<32>> \o med.timing
                       ELSE meal_names[meal_key],
         medicine  |-> med.name,
         per_dose  |-> med.per_dose,
         meal      |-> meal_key]

(* Mutant: the bedtime branch lacks its continue and falls into the meal loop. *)
AlarmsOfBedtimeFallsThrough(med, meal_times) ==
    IF SkipsRecord(med) THEN <<>>
    ELSE (IF TakesBedtimeBranch(med.timing) THEN <<BedtimeAlarm(med)>> ELSE <<>>)
         \o (IF SlotCount(med.frequency) = 0 THEN <<>>
             ELSE [i \in 1..SlotCount(med.frequency) |-> MealAlarm(med, i, meal_times)])

AlarmsOf(med, meal_times) ==
    IF SkipsRecord(med) THEN <<>>
    ELSE IF TakesBedtimeBranch(med.timing) THEN <<BedtimeAlarm(med)>>
    ELSE IF SlotCount(med.frequency) = 0 THEN <<>>
    ELSE [i \in 1..SlotCount(med.frequency) |-> MealAlarm(med, i, meal_times)]

generate_alarms(medicines, meal_times) ==
    Flatten([k \in 1..Len(medicines) |-> AlarmsOf(medicines[k], meal_times)])

----------------------------------------------------------------------------
(* Bounded strings *)
RECURSIVE SeqsUpTo(_, _)
SeqsUpTo(S, n) ==
    IF n = 0 THEN {<<>>}
    ELSE LET shorter == SeqsUpTo(S, n - 1)
         IN  shorter \cup {Append(q, x) : q \in {r \in shorter : Len(r) = n - 1}, x \in S}

MaxNormLen == 5

(* '1', '2', 'l', 'O', '|', 'm', ' ' and the tablet suffix U+C815 *)
NormAlphabet == {49, 50, 108, 79, 124, 109, 32, 51221}

NormInputs == SeqsUpTo(NormAlphabet, MaxNormLen)

----------------------------------------------------------------------------
(* Medicine records handed to generate_alarms: the timing values that    *)
(* parse_prescription writes into a record, frequencies 0..MaxFreq.        *)
MaxFreq == 5

MaxMeds == 2

TimingValues == {s_sikhu, s_sikjeon, s_sikgan, s_chwichimjeon, s_gongbok, s_jeongbo_eopseum}

MedNameDose == {[name |-> <<65>>, per_dose |-> 1], [name |-> <<66>>, per_dose |-> 2]}

MedPool ==
    {[name |-> nd.name, per_dose |-> nd.per_dose, frequency |-> f, timing |-> t] :
        nd \in MedNameDose, f \in 0..MaxFreq, t \in TimingValues}

(* Meal-time tables: the table set by __init__, and one whose breakfast    *)
(* and dinner sit next to midnight so that base + offset leaves 0..1439.   *)
MealTimeTables ==
    {DefaultMealTimes,
     [breakfast |-> [hour |-> 0, minute |-> 10],
      lunch     |-> [hour |-> 12, minute |-> 0],
      dinner    |-> [hour |-> 23, minute |-> 50]]}

(* One call of _normalize_ocr on a raw OCR string. *)
Normalize ==
    /\ op = "normalize"
    /\ pc = "call"
    /\ ret' = _normalize_ocr(arg)
    /\ pc' = "return"
    /\ UNCHANGED <<lexicon, default_meal_times, api_key, hash_seed, op, arg, lookups>>

InitNormalize ==
    /\ lexicon = None
    /\ default_meal_times = DefaultMealTimes
    /\ api_key = ""
    /\ hash_seed = 0
    /\ lookups = <<>>
    /\ op = "normalize"
    /\ arg \in NormInputs
    /\ pc = "call"
    /\ ret = None

NextNormalize == Normalize

SpecNormalize == InitNormalize /\ [][NextNormalize]_vars

(* One call of generate_alarms. *)
Generate ==
    /\ op = "generate"
    /\ pc = "call"
    /\ ret' = generate_alarms(arg, default_meal_times)
    /\ pc' = "return"
    /\ UNCHANGED <<lexicon, default_meal_times, api_key, hash_seed, op, arg, lookups>>

InitAlarms ==
    /\ lexicon = None
    /\ default_meal_times \in MealTimeTables
    /\ api_key = ""
    /\ hash_seed = 0
    /\ lookups = <<>>
    /\ op = "generate"
    /\ arg \in SeqsUpTo(MedPool, MaxMeds)
    /\ pc = "call"
    /\ ret = None

NextAlarms == Generate

SpecAlarms == InitAlarms /\ [][NextAlarms]_vars

----------------------------------------------------------------------------
(* Lexicon files, OCR lines and lookup replies for match and parse *)

(* No file; a file holding only a comment; a file whose only line is '|',  *)
(* which names no drug; two drugs, '타이레놀 | 타이레놀정' and                 *)
(* '이지앤6 이브 | 이브A정'; and a file that names '타이레놀' twice, the second *)
(* time with the misreading as an alias, '타이레놀 | 타이레늘'.                *)
LexiconFiles ==
    {None,
     List(<<<<35, 32, 50557, 54408>>>>),
     List(<<<<124>>>>),
     List(<<<<53440, 51060, 47112, 45440, 32, 124, 32, 53440, 51060, 47112, 45440, 51221>>,
            <<51060, 51648, 50532, 54, 32, 51060, 48652, 32, 124, 32, 51060, 48652, 65, 51221>>>>),
     List(<<<<53440, 51060, 47112, 45440, 32, 124, 32, 53440, 51060, 47112, 45440, 51221>>,
            <<53440, 51060, 47112, 45440, 32, 124, 32, 53440, 51060, 47112, 45720>>>>)}

(* '타이레놀정 500mg', the misread '타이레늘', and '이브' *)
LinePool ==
    {<<53440, 51060, 47112, 45440, 51221, 32, 53, 48, 48, 109, 103>>,
     <<53440, 51060, 47112, 45720>>,
     <<51060, 48652>>}

(* The lines of a call of match_from_ocr_lines: those, and '정', which has  *)
(* no token of its own.                                                     *)
MatchLinePool == LinePool \cup {<<51221>>}

MaxLines == 2

(* The texts of a request: None, or a list of strs and numbers. *)
TextsInputs ==
    {None} \cup {List(t) : t \in SeqsUpTo({Str(l) : l \in LinePool} \cup {Number(700)}, MaxLines)}

(* The scores of a request: None, or a list of confidences. *)
ScoresInputs == {None, List(<<>>), List(<<Number(30)>>), List(<<Number(90), Number(49)>>)}

(* The first item of a reply.  Its useMethodQesitm is                      *)
(* '성인 1회 2정 1일 3회 식후 복용' (the item then names its class,           *)
(* '전문의약품'), '소아 1회 1정. 성인 1회 1~2정, 1일 3~4회 취침 전',            *)
(* '성인 1회 0정 1일 3회. 소아 1회 1정 1일 2회 식전', null, or a number.       *)
ItemPool ==
    {[useMethodQesitm |->
          Str(<<49457, 51064, 32, 49, 54924, 32, 50, 51221, 32, 49, 51068, 32, 51, 54924, 32,
                49885, 54980, 32, 48373, 50857>>),
      etcOtcName |-> <<51204, 47928, 51032, 50557, 54408>>],
     [useMethodQesitm |->
          Str(<<49548, 50500, 32, 49, 54924, 32, 49, 51221, 46, 32, 49457, 51064, 32, 49,
                54924, 32, 49, 126, 50, 51221, 44, 32, 49, 51068, 32, 51, 126, 52, 54924, 32,
                52712, 52840, 32, 51204>>),
      etcOtcName |-> <<>>],
     [useMethodQesitm |->
          Str(<<49457, 51064, 32, 49, 54924, 32, 48, 51221, 32, 49, 51068,
                32, 51, 54924, 46, 32, 49548, 50500, 32, 49, 54924, 32, 49,
                51221, 32, 49, 51068, 32, 50, 54924, 32, 49885, 51204>>),
      etcOtcName |-> <<>>],
     [useMethodQesitm |-> None, etcOtcName |-> <<>>],
     [useMethodQesitm |-> Number(500), etcOtcName |-> <<>>]}

(* One call of DrugLexicon.match_from_ocr_lines on the loaded lexicon. *)
Match ==
    /\ op = "match"
    /\ pc = "call"
    /\ ret' = match_from_ocr_lines(lexicon, arg, hash_seed)
    /\ pc' = "return"
    /\ UNCHANGED <<lexicon, default_meal_times, api_key, hash_seed, op, arg, lookups>>

(* One call of parse_prescription; each lookup it makes gets one of the    *)
(* replies get_medicine_info can give.                                      *)
Parse ==
    /\ op = "parse"
    /\ pc = "call"
    /\ \E candidates \in {CandidatesOf(lexicon, arg.texts, arg.scores, hash_seed)} :
           \E replies \in [1..Len(candidates) -> get_medicine_info(api_key, ItemPool)] :
               /\ ret' = ParseResult(arg.texts, candidates, replies)
               /\ lookups' = LookupsMade(candidates, replies)
    /\ pc' = "return"
    /\ UNCHANGED <<lexicon, default_meal_times, api_key, hash_seed, op, arg>>

Init ==
    /\ hash_seed \in {0, 1}
    /\ \E file \in LexiconFiles : lexicon = LoadLexicon(file, hash_seed)
    /\ default_meal_times = DefaultMealTimes
    /\ api_key \in {"", "key"}
    /\ lookups = <<>>
    /\ pc = "call"
    /\ ret = None
    /\ \/ /\ op = "match"
          /\ lexicon # None
          /\ arg \in SeqsUpTo(MatchLinePool, MaxLines)
       \/ /\ op = "parse"
          /\ arg \in [texts : TextsInputs, scores : ScoresInputs]

Next == Match \/ Parse

Spec == Init /\ [][Next]_vars

----------------------------------------------------------------------------
(* Two requests served concurrently by one service.  op is "concurrent";   *)
(* arg, pc, ret and lookups hold one value per request.                     *)

(* The lexicon file of the service: '타이레놀 | 타이레놀정' and               *)
(* '이지앤6 이브 | 이브A정'.                                                  *)
ServiceFile ==
    List(<<<<53440, 51060, 47112, 45440, 32, 124, 32, 53440, 51060, 47112, 45440, 51221>>,
           <<51060, 51648, 50532, 54, 32, 51060, 48652, 32, 124, 32, 51060, 48652, 65, 51221>>>>)

MatchRequest(lines) ==
    [op |-> "match", lines |-> lines, texts |-> None, scores |-> None, medicines |-> <<>>]

ParseRequest(texts) ==
    [op |-> "parse", lines |-> <<>>, texts |-> texts, scores |-> None, medicines |-> <<>>]

GenerateRequest(medicines) ==
    [op |-> "generate", lines |-> <<>>, texts |-> None, scores |-> None, medicines |-> medicines]

(* match on '타이레늘' and on '타이레놀정 500mg', '이브'; parse of '이브' and  *)
(* of '타이레놀정 500mg'; generate for one record taken after meals and for *)
(* one taken before bedtime.                                                *)
RequestPool ==
    {MatchRequest(<<<<53440, 51060, 47112, 45720>>>>),
     MatchRequest(<<<<53440, 51060, 47112, 45440, 51221, 32, 53, 48, 48, 109, 103>>,
                    <<51060, 48652>>>>),
     ParseRequest(List(<<Str(<<51060, 48652>>)>>)),
     ParseRequest(List(<<Str(<<53440, 51060, 47112, 45440, 51221, 32, 53, 48, 48, 109, 103>>)>>)),
     GenerateRequest(<<[name |-> <<65>>, per_dose |-> 1, frequency |-> 2, timing |-> s_sikhu]>>),
     GenerateRequest(<<[name |-> <<66>>, per_dose |-> 2, frequency |-> 1,
                        timing |-> s_chwichimjeon]>>)}

(* A matcher that drops from the lexicon the drugs it has matched. *)
ServeMatchConsumesDrugs ==
    \E i \in 1..2 :
        /\ op = "concurrent"
        /\ pc[i] = "call"
        /\ arg[i].op = "match"
        /\ \E result \in {match_from_ocr_lines(lexicon, arg[i].lines, hash_seed)} :
              /\ ret' = [ret EXCEPT ![i] = result]
              /\ lexicon' = [lexicon EXCEPT !.drugs =
                                SelectSeq(@, LAMBDA d : \A k \in 1..Len(result) :
                                                            result[k].canonical # d.canonical)]
        /\ pc' = [pc EXCEPT ![i] = "return"]
        /\ UNCHANGED <<default_meal_times, api_key, hash_seed, op, arg, lookups>>

(* One of the requests is a call of match_from_ocr_lines and runs. *)
ServeMatch ==
    \E i \in 1..2 :
        /\ op = "concurrent"
        /\ pc[i] = "call"
        /\ arg[i].op = "match"
        /\ ret' = [ret EXCEPT ![i] = match_from_ocr_lines(lexicon, arg[i].lines, hash_seed)]
        /\ pc' = [pc EXCEPT ![i] = "return"]
        /\ UNCHANGED <<lexicon, default_meal_times, api_key, hash_seed, op, arg, lookups>>

(* One of the requests is a call of parse_prescription and runs. *)
ServeParse ==
    \E i \in 1..2 :
        /\ op = "concurrent"
        /\ pc[i] = "call"
        /\ arg[i].op = "parse"
        /\ \E candidates \in {CandidatesOf(lexicon, arg[i].texts, arg[i].scores, hash_seed)} :
               \E replies \in [1..Len(candidates) -> get_medicine_info(api_key, ItemPool)] :
                   /\ ret' = [ret EXCEPT ![i] = ParseResult(arg[i].texts, candidates, replies)]
                   /\ lookups' = [lookups EXCEPT ![i] = LookupsMade(candidates, replies)]
        /\ pc' = [pc EXCEPT ![i] = "return"]
        /\ UNCHANGED <<lexicon, default_meal_times, api_key, hash_seed, op, arg>>

(* One of the requests is a call of generate_alarms and runs. *)
ServeGenerate ==
    \E i \in 1..2 :
        /\ op = "concurrent"
        /\ pc[i] = "call"
        /\ arg[i].op = "generate"
        /\ ret' = [ret EXCEPT ![i] = generate_alarms(arg[i].medicines, default_meal_times)]
        /\ pc' = [pc EXCEPT ![i] = "return"]
        /\ UNCHANGED <<lexicon, default_meal_times, api_key, hash_seed, op, arg, lookups>>

InitService ==
    /\ hash_seed \in {0, 1}
    /\ lexicon = LoadLexicon(ServiceFile, hash_seed)
    /\ default_meal_times = DefaultMealTimes
    /\ api_key \in {"", "key"}
    /\ op = "concurrent"
    /\ arg \in [1..2 -> RequestPool]
    /\ pc = <<"call", "call">>
    /\ ret = <<None, None>>
    /\ lookups = <<<<>>, <<>>>>

NextService == ServeMatch \/ ServeParse \/ ServeGenerate

SpecService == InitService /\ [][NextService]_vars

----------------------------------------------------------------------------
(* Usage texts handed to _parse_usage_ranges.  arg.text is the text;       *)
(* arg.dose, arg.freq and arg.timing are what was written into it.          *)
MaxCount == 3

(* The decimal digits of n, 0 <= n <= 99 *)
Dec(n) == IF n < 10 THEN <<48 + n>> ELSE <<48 + (n \div 10), 48 + (n % 10)>>

Written(text, min, max, unit) == [text |-> text, min |-> min, max |-> max, unit |-> unit]

(* Nothing, '1회 N<unit>', '1회 N~M<unit>' or 'N<unit>씩', unit 정 or ml *)
DoseParts ==
    {Written(<<>>, NoInt, NoInt, <<>>)}
    \cup {Written(<<49, 54924, 32>> \o Dec(n) \o u, n, n, u) :
             n \in 1..MaxCount, u \in {<<51221>>, <<109, 108>>}}
    \cup {Written(<<49, 54924, 32>> \o Dec(n) \o <<126>> \o Dec(m) \o u, n, m, u) :
             n \in 1..MaxCount, m \in 1..MaxCount, u \in {<<51221>>, <<109, 108>>}}
    \cup {Written(Dec(n) \o u \o <<50473>>, n, n, u) :
             n \in 1..MaxCount, u \in {<<51221>>, <<109, 108>>}}

(* Nothing, '1일 N회', '1일 N~M회' or 'N번 복용' *)
FreqParts ==
    {Written(<<>>, NoInt, NoInt, <<>>)}
    \cup {Written(<<49, 51068, 32>> \o Dec(n) \o <<54924>>, n, n, <<>>) : n \in 1..MaxCount}
    \cup {Written(<<49, 51068, 32>> \o Dec(n) \o <<126>> \o Dec(m) \o <<54924>>, n, m, <<>>) :
             n \in 1..MaxCount, m \in 1..MaxCount}
    \cup {Written(Dec(n) \o <<48264, 32, 48373, 50857>>, n, n, <<>>) : n \in 1..MaxCount}

(* Nothing, '식후 30분에 복용', '식전', '취침 전', '공복을 피하세요', '공복' *)
TimingParts ==
    {[text |-> <<>>, timing |-> <<>>],
     [text |-> <<49885, 54980, 32, 51, 48, 48516, 50640, 32, 48373, 50857>>, timing |-> s_sikhu],
     [text |-> <<49885, 51204>>, timing |-> s_sikjeon],
     [text |-> <<52712, 52840, 32, 51204>>, timing |-> s_chwichimjeon],
     [text |-> <<44277, 48373, 51012, 32, 54588, 54616, 49464, 50836>>, timing |-> s_sikhu],
     [text |-> <<44277, 48373>>, timing |-> s_gongbok]}

(* a and b, with sep between them when neither is empty *)
JoinWith(a, sep, b) == IF a = <<>> THEN b ELSE IF b = <<>> THEN a ELSE a \o sep \o b

(* '<dose>, <freq> <timing>' *)
UsageOf(dose, freq, timing) ==
    JoinWith(JoinWith(dose.text, <<44, 32>>, freq.text), <<32>>, timing.text)

(* One call of _parse_usage_ranges on a usage text. *)
ParseRanges ==
    /\ op = "ranges"
    /\ pc = "call"
    /\ ret' = _parse_usage_ranges(arg.text)
    /\ pc' = "return"
    /\ UNCHANGED <<lexicon, default_meal_times, api_key, hash_seed, op, arg, lookups>>

InitRanges ==
    /\ lexicon = None
    /\ default_meal_times = DefaultMealTimes
    /\ api_key = ""
    /\ hash_seed = 0
    /\ lookups = <<>>
    /\ op = "ranges"
    /\ \E dose \in DoseParts, freq \in FreqParts, timing \in TimingParts :
          arg = [text |-> UsageOf(dose, freq, timing),
                 dose |-> dose, freq |-> freq, timing |-> timing]
    /\ pc = "call"
    /\ ret = None

NextRanges == ParseRanges

SpecRanges == InitRanges /\ [][NextRanges]_vars

----------------------------------------------------------------------------
(* Calls of parse_prescription on texts with noise lines, on the service   *)
(* of ServiceFile without an API key.                                       *)

(* '타이레놀정 500mg', '이브', '20240101', '약국 영수증', 'A', '12000원',      *)
(* '2024-01-01', '123-45-67890' and ' '                                     *)
NoisyLinePool ==
    {<<53440, 51060, 47112, 45440, 51221, 32, 53, 48, 48, 109, 103>>,
     <<51060, 48652>>,
     <<50, 48, 50, 52, 48, 49, 48, 49>>,
     <<50557, 44397, 32, 50689, 49688, 51613>>,
     <<65>>,
     <<49, 50, 48, 48, 48, 50896>>,
     <<50, 48, 50, 52, 45, 48, 49, 45, 48, 49>>,
     <<49, 50, 51, 45, 52, 53, 45, 54, 55, 56, 57, 48>>,
     <<32>>}

(* No scores, an empty list, one confidence of 0.49, and 0.50 then 0.30 *)
ConfidenceInputs ==
    {None, List(<<>>), List(<<Number(49)>>), List(<<Number(50), Number(30)>>)}

InitFilter ==
    /\ hash_seed = 0
    /\ lexicon = LoadLexicon(ServiceFile, hash_seed)
    /\ default_meal_times = DefaultMealTimes
    /\ api_key = ""
    /\ lookups = <<>>
    /\ op = "parse"
    /\ arg \in [texts  : {List(t) : t \in SeqsUpTo({Str(l) : l \in NoisyLinePool}, MaxLines)},
                scores : ConfidenceInputs]
    /\ pc = "call"
    /\ ret = None

NextFilter == Parse

SpecFilter == InitFilter /\ [][NextFilter]_vars

----------------------------------------------------------------------------
(* POST /api/medicine/parse (app.py parse_prescription_endpoint) on the    *)
(* service of ServiceFile.  arg is the JSON body: None when there is none, *)
(* the dict {} , or a dict whose key 'texts' holds arg.texts.               *)

(* The 400 reply *)
NoTextsResponse == [code |-> 400, status |-> "error", medicines |-> <<>>, alarms |-> <<>>]

(* {**med, 'details': detail} *)
WithDetails(med, detail) == [med EXCEPT !.details = detail]

(* The 200 reply: the records of the parse, each with the reply to its     *)
(* detail lookup, and the alarms generated for them.                        *)
SuccessResponse(parsed, details, meal_times) ==
    With([k \in 1..Len(parsed.medicines) |-> WithDetails(parsed.medicines[k], details[k])],
         LAMBDA medicines :
             [code      |-> 200,
              status    |-> "success",
              medicines |-> medicines,
              alarms    |-> generate_alarms(medicines, meal_times)])

(* The detail lookups: one per record, keyed by the record's name. *)
DetailLookups(parsed, details) ==
    [k \in 1..Len(parsed.medicines) |-> [name |-> parsed.medicines[k].name, info |-> details[k]]]

(* One request to the endpoint: parse_prescription(texts), then a lookup   *)
(* for every record of its result, then generate_alarms.                    *)
ParseEndpoint ==
    /\ op = "endpoint"
    /\ pc = "call"
    /\ IF arg = None \/ arg = EmptyDict
       THEN ret' = NoTextsResponse /\ lookups' = lookups
       ELSE \E candidates \in {CandidatesOf(lexicon, arg.texts, None, hash_seed)} :
            \E replies \in [1..Len(candidates) -> get_medicine_info(api_key, ItemPool)] :
            \E parsed \in {ParseResult(arg.texts, candidates, replies)} :
            \E details \in [1..Len(parsed.medicines) -> get_medicine_info(api_key, ItemPool)] :
                /\ ret' = SuccessResponse(parsed, details, default_meal_times)
                /\ lookups' = LookupsMade(candidates, replies) \o DetailLookups(parsed, details)
    /\ pc' = "return"
    /\ UNCHANGED <<lexicon, default_meal_times, api_key, hash_seed, op, arg>>

InitEndpoint ==
    /\ hash_seed \in {0, 1}
    /\ lexicon = LoadLexicon(ServiceFile, hash_seed)
    /\ default_meal_times = DefaultMealTimes
    /\ api_key \in {"", "key"}
    /\ lookups = <<>>
    /\ op = "endpoint"
    /\ arg \in {None, EmptyDict} \cup {[texts |-> t] : t \in TextsInputs}
    /\ pc = "call"
    /\ ret = None

NextEndpoint == ParseEndpoint

SpecEndpoint == InitEndpoint /\ [][NextEndpoint]_vars

----------------------------------------------------------------------------
(* Usage texts with several timing phrases, handed to _parse_usage_ranges. *)
(* arg.text is the text, arg.phrases the phrases it was written from, in   *)
(* their order in the text.                                                 *)
MaxPhrases == 3

(* A phrase, the timing it marks (empty: none) and whether it is an        *)
(* 'avoid an empty stomach' phrasing.                                       *)
Phrase(text, timing, avoids) == [text |-> text, timing |-> timing, avoids |-> avoids]

(* '1일 3회 복용', '식후 30분', '식전', '식간', '취침 전', '취침전', '공복',   *)
(* '공복(빈 속)', '공복을 피하세요', '빈 속을 피하'                            *)
TimingPhrases ==
    {Phrase(<<49, 51068, 32, 51, 54924, 32, 48373, 50857>>,
            <<>>, FALSE),
     Phrase(<<49885, 54980, 32, 51, 48, 48516>>,
            s_sikhu, FALSE),
     Phrase(<<49885, 51204>>,
            s_sikjeon, FALSE),
     Phrase(<<49885, 44036>>,
            s_sikgan, FALSE),
     Phrase(<<52712, 52840, 32, 51204>>,
            s_chwichimjeon, FALSE),
     Phrase(<<52712, 52840, 51204>>,
            s_chwichimjeon, FALSE),
     Phrase(<<44277, 48373>>,
            s_gongbok, FALSE),
     Phrase(<<44277, 48373, 40, 48712, 32, 49549, 41>>,
            s_gongbok, FALSE),
     Phrase(<<44277, 48373, 51012, 32, 54588, 54616, 49464, 50836>>,
            s_sikhu, TRUE),
     Phrase(<<48712, 32, 49549, 51012, 32, 54588, 54616>>,
            s_sikhu, TRUE)}

(* The phrases joined with ', ' *)
RECURSIVE PhrasesText(_)
PhrasesText(phrases) ==
    IF phrases = <<>> THEN <<>>
    ELSE JoinWith(phrases[1].text, <<44, 32>>, PhrasesText(Tail(phrases)))

InitTiming ==
    /\ lexicon = None
    /\ default_meal_times = DefaultMealTimes
    /\ api_key = ""
    /\ hash_seed = 0
    /\ lookups = <<>>
    /\ op = "ranges"
    /\ \E phrases \in SeqsUpTo(TimingPhrases, MaxPhrases) :
          arg = [text |-> PhrasesText(phrases), phrases |-> phrases]
    /\ pc = "call"
    /\ ret = None

NextTiming == ParseRanges

SpecTiming == InitTiming /\ [][NextTiming]_vars

----------------------------------------------------------------------------
(* Lexicons and lines that vary what the score is made of: how many drugs  *)
(* share a root, how many roots a line shares with a drug, and how many of *)
(* the line's tokens are noise.                                             *)

(* One drug, '타이레놀 | 타이레놀정'; the two drugs of the service; and three *)
(* drugs, two of which share the roots of '타이레놀':                        *)
(* '타이레놀 | 타이레놀정', '타이레놀이알 | 타이레놀이알정',                    *)
(* '이지앤6 이브 | 이브A정'.                                                  *)
ScoringFiles ==
    {List(<<<<53440, 51060, 47112, 45440, 32, 124, 32, 53440, 51060, 47112, 45440, 51221>>>>),
     ServiceFile,
     List(<<<<53440, 51060, 47112, 45440, 32, 124, 32, 53440, 51060, 47112, 45440, 51221>>,
                <<53440, 51060, 47112, 45440, 51060, 50508, 32, 124, 32, 53440, 51060, 47112, 45440, 51060, 50508, 51221>>,
                <<51060, 51648, 50532, 54, 32, 51060, 48652, 32, 124, 32, 51060, 48652, 65, 51221>>>>)}

(* '타이레놀 1정 1일 3회', '타이러늘 1정 1일', '타이레늘', '감기약 1정 1일',   *)
(* '타이', '이브 1정', '타이레놀이알, 타이', and '타이레놀이, 감기', whose     *)
(* first token is the start of an alias and the root of no entry.           *)
ScoringLinePool ==
    {<<53440, 51060, 47112, 45440, 51060, 44, 32, 44048, 44592>>,
     <<53440, 51060, 47112, 45440, 32, 49, 51221, 32, 49, 51068, 32, 51, 54924>>,
     <<53440, 51060, 47084, 45720, 32, 49, 51221, 32, 49, 51068>>,
     <<53440, 51060, 47112, 45720>>,
     <<44048, 44592, 50557, 32, 49, 51221, 32, 49, 51068>>,
     <<53440, 51060>>,
     <<51060, 48652, 32, 49, 51221>>,
     <<53440, 51060, 47112, 45440, 51060, 50508, 44, 32, 53440, 51060>>}

InitScoring ==
    /\ hash_seed \in {0, 1}
    /\ \E file \in ScoringFiles : lexicon = LoadLexicon(file, hash_seed)
    /\ default_meal_times = DefaultMealTimes
    /\ api_key = ""
    /\ lookups = <<>>
    /\ op = "match"
    /\ arg \in SeqsUpTo(ScoringLinePool, MaxLines)
    /\ pc = "call"
    /\ ret = None

NextScoring == Match

SpecScoring == InitScoring /\ [][NextScoring]_vars

----------------------------------------------------------------------------
(* Lookups whose usage text has sentences with and without an age marker.  *)
(* arg.texts is the request, arg.item the item the lookup service holds,   *)
(* arg.sentences the sentences its usage text was written from; aged tells *)
(* whether the sentence names an age group.                                 *)
MaxSentences == 2

(* No age group, '성인 ', '소아 ', '만 15세 이상 ' *)
AgePrefixes ==
    {[text |-> <<>>, aged |-> FALSE],
     [text |-> <<49457, 51064, 32>>, aged |-> TRUE],
     [text |-> <<49548, 50500, 32>>, aged |-> TRUE],
     [text |-> <<47564, 32, 49, 53, 49464, 32, 51060, 49345, 32>>, aged |-> TRUE]}

(* '1회 2정 1일 3회 식전', '3정씩 복용', '1일 2회 취침 전' *)
SentenceBodies ==
    {<<49, 54924, 32, 50, 51221, 32, 49, 51068, 32, 51, 54924, 32, 49885, 51204>>,
     <<51, 51221, 50473, 32, 48373, 50857>>,
     <<49, 51068, 32, 50, 54924, 32, 52712, 52840, 32, 51204>>}

AgedSentencePool ==
    {[text |-> prefix.text \o body, aged |-> prefix.aged] :
        prefix \in AgePrefixes, body \in SentenceBodies}

(* The sentences joined with '. ' *)
RECURSIVE SentencesText(_)
SentencesText(sentences) ==
    IF sentences = <<>> THEN <<>>
    ELSE JoinWith(sentences[1].text, <<46, 32>>, SentencesText(Tail(sentences)))

(* The item whose usage is the text *)
ItemWithUsage(text) == [useMethodQesitm |-> Str(text), etcOtcName |-> <<>>]

(* One line that names one drug, or two lines that name two:               *)
(* '타이레놀정 500mg'; '타이레늘', '이브'.                                    *)
UsageTextsInputs ==
    {List(<<Str(<<53440, 51060, 47112, 45440, 51221, 32, 53, 48, 48, 109, 103>>)>>),
     List(<<Str(<<53440, 51060, 47112, 45720>>), Str(<<51060, 48652>>)>>)}

(* One call of parse_prescription while the lookup service holds arg.item  *)
(* for every name.                                                          *)
ParseUsage ==
    /\ op = "parse"
    /\ pc = "call"
    /\ \E candidates \in {CandidatesOf(lexicon, arg.texts, arg.scores, hash_seed)} :
           \E replies \in [1..Len(candidates) -> get_medicine_info(api_key, {arg.item})] :
               /\ ret' = ParseResult(arg.texts, candidates, replies)
               /\ lookups' = LookupsMade(candidates, replies)
    /\ pc' = "return"
    /\ UNCHANGED <<lexicon, default_meal_times, api_key, hash_seed, op, arg>>

InitUsage ==
    /\ hash_seed = 0
    /\ lexicon = LoadLexicon(ServiceFile, hash_seed)
    /\ default_meal_times = DefaultMealTimes
    /\ api_key = "key"
    /\ lookups = <<>>
    /\ op = "parse"
    /\ \E texts \in UsageTextsInputs :
       \E sentences \in SeqsUpTo(AgedSentencePool, MaxSentences) :
          arg = [texts |-> texts, scores |-> None,
                 item |-> ItemWithUsage(SentencesText(sentences)),
                 sentences |-> sentences]
    /\ pc = "call"
    /\ ret = None

NextUsage == ParseUsage

SpecUsage == InitUsage /\ [][NextUsage]_vars

(* C3: normalising an already normalised string changes nothing:           *)
(* _normalize_ocr(_normalize_ocr(s)) = _normalize_ocr(s) for every s.       *)
NormalizeIdempotent ==
    (op = "normalize" /\ pc = "return") => (_normalize_ocr(ret) = ret)

----------------------------------------------------------------------------
(* Properties of generate_alarms *)
Returned(o) == op = o /\ pc = "return"

IsBedtimeRecord(med) == med.timing = s_chwichimjeon

(* C4: a record whose frequency is 0 gets no alarm, whatever its timing,   *)
(* name or per_dose, and the alarms of the other records are the ones the  *)
(* list without it would get.                                               *)
ZeroFrequencySuppressed ==
    Returned("generate") =>
        /\ ret = generate_alarms(SelectSeq(arg, LAMBDA m : m.frequency # 0), default_meal_times)
        /\ (\A k \in 1..Len(arg) : arg[k].frequency = 0) => ret = <<>>
        /\ \A k \in 1..Len(arg) :
              (/\ arg[k].frequency = 0
               /\ \A j \in 1..Len(arg) : arg[j].frequency # 0 => arg[j].name # arg[k].name)
              => \A e \in 1..Len(ret) : ret[e].medicine # arg[k].name

ZeroFrequencyWitness ==
    /\ Returned("generate")
    /\ Len(arg) = 2
    /\ arg[1].frequency = 0 /\ IsBedtimeRecord(arg[1])
    /\ arg[2].frequency = 2 /\ arg[2].name # arg[1].name
    /\ Len(ret) = 2

(* The event a bedtime record is said to yield. *)
BedtimeEventOf(med) ==
    [time |-> <<50, 50, 58, 48, 48>>, condition |-> <<52712, 52840, 32, 51204>>,
     medicine |-> med.name, per_dose |-> med.per_dose, meal |-> "bedtime"]

BedtimeEvents == SelectSeq(ret, LAMBDA e : e.meal = "bedtime")

(* C5 as stated: every record whose timing is bedtime yields exactly one   *)
(* event, at 22:00 with meal = bedtime and the 'before bedtime' label,     *)
(* whatever its frequency.                                                  *)
BedtimeAlwaysOneEvent ==
    Returned("generate") =>
        LET beds == SelectSeq(arg, IsBedtimeRecord)
        IN  /\ BedtimeEvents = [k \in 1..Len(beds) |-> BedtimeEventOf(beds[k])]
            /\ (\A k \in 1..Len(arg) : IsBedtimeRecord(arg[k])) => ret = BedtimeEvents

(* C5 amended: every bedtime record whose frequency is not 0 yields        *)
(* exactly one event, at 22:00 with meal = bedtime and the 'before         *)
(* bedtime' label, whatever that frequency; with frequency 0 it yields     *)
(* none.                                                                    *)
BedtimeOneEventUnlessZero ==
    Returned("generate") =>
        LET beds == SelectSeq(arg, LAMBDA m : IsBedtimeRecord(m) /\ m.frequency # 0)
        IN  /\ BedtimeEvents = [k \in 1..Len(beds) |-> BedtimeEventOf(beds[k])]
            /\ (\A k \in 1..Len(arg) : IsBedtimeRecord(arg[k])) => ret = BedtimeEvents

BedtimeWitness ==
    /\ Returned("generate")
    /\ Len(arg) = 2
    /\ IsBedtimeRecord(arg[1]) /\ arg[1].frequency = MaxFreq
    /\ IsBedtimeRecord(arg[2]) /\ arg[2].frequency = 1
    /\ Len(ret) = 2

(* Number of events a record is said to yield. *)
EventCountOf(med) ==
    IF med.frequency = 0 THEN 0
    ELSE IF IsBedtimeRecord(med) THEN 1
    ELSE IF med.frequency < 3 THEN med.frequency ELSE 3

MealSlots == <<"breakfast", "lunch", "dinner">>

(* C6: a non-bedtime record with frequency f >= 1 yields exactly min(f, 3) *)
(* events, on the first min(f, 3) of breakfast, lunch, dinner in that      *)
(* order, each with the record's name and per_dose; the events of          *)
(* different records follow the order of the records.                       *)
FrequencyCappedAtThreeSlots ==
    Returned("generate") =>
        LET meals  == SelectSeq(arg, LAMBDA m : ~IsBedtimeRecord(m) /\ m.frequency >= 1)
            events == SelectSeq(ret, LAMBDA e : e.meal # "bedtime")
        IN  /\ [k \in 1..Len(events) |->
                    <<events[k].medicine, events[k].per_dose, events[k].meal>>]
               = Flatten([k \in 1..Len(meals) |->
                    [i \in 1..EventCountOf(meals[k]) |->
                        <<meals[k].name, meals[k].per_dose, MealSlots[i]>>]])
            /\ [k \in 1..Len(ret) |-> <<ret[k].medicine, ret[k].per_dose>>]
               = Flatten([k \in 1..Len(arg) |->
                    [i \in 1..EventCountOf(arg[k]) |-> <<arg[k].name, arg[k].per_dose>>]])
            /\ \A k \in 1..Len(arg) : Len(AlarmsOf(arg[k], default_meal_times)) <= 3

FrequencyCapWitness ==
    /\ Returned("generate")
    /\ Len(arg) = 2
    /\ arg[1].frequency = 5 /\ arg[1].timing = s_sikhu
    /\ arg[2].frequency = 2 /\ arg[2].timing = s_gongbok /\ arg[2].name # arg[1].name
    /\ Len(ret) = 5

(* The offset and the clock rendering as C7 states them. *)
OffsetOf(timing) ==
    CASE timing = s_sikhu -> 30
      [] timing = s_sikjeon -> 0 - 30
      [] timing = s_sikgan -> 120
      [] OTHER -> 0

ClockOf(minutes) ==
    <<48 + (minutes \div 600), 48 + ((minutes \div 60) % 10), 58,
      48 + ((minutes % 60) \div 10), 48 + (minutes % 10)>>

BaseMinutesOf(slot) == default_meal_times[slot].hour * 60 + default_meal_times[slot].minute

IsClockText(t) ==
    /\ Len(t) = 5
    /\ t[3] = 58
    /\ \A k \in {1, 2, 4, 5} : t[k] \in 48..57
    /\ (t[1] - 48) * 10 + (t[2] - 48) \in 0..23
    /\ (t[4] - 48) * 10 + (t[5] - 48) \in 0..59

(* C7: the time of each non-bedtime event is (meal base + offset) mod 1440 *)
(* as zero-padded HH:MM, with offset +30 after meals, -30 before meals,    *)
(* +120 between meals and 0 otherwise; hour in 0..23 and minute in 0..59   *)
(* also when base + offset is negative or reaches 1440.  Frequency 2,      *)
(* after-meal, with the default table gives 08:30 and 12:30.                *)
AlarmTimeIsMealPlusOffset ==
    Returned("generate") =>
        LET meals  == SelectSeq(arg, LAMBDA m : ~IsBedtimeRecord(m) /\ m.frequency >= 1)
            events == SelectSeq(ret, LAMBDA e : e.meal # "bedtime")
        IN  /\ [k \in 1..Len(events) |-> events[k].time]
               = Flatten([k \in 1..Len(meals) |->
                    [i \in 1..EventCountOf(meals[k]) |->
                        ClockOf((BaseMinutesOf(MealSlots[i]) + OffsetOf(meals[k].timing)) % 1440)]])
            /\ \A k \in 1..Len(ret) : IsClockText(ret[k].time)
            /\ (/\ default_meal_times = DefaultMealTimes
                /\ Len(arg) = 1
                /\ arg[1].frequency = 2 /\ arg[1].timing = s_sikhu /\ arg[1].per_dose = 1)
               => /\ Len(ret) = 2
                  /\ ret[1].time = <<48, 56, 58, 51, 48>> /\ ret[1].per_dose = 1
                  /\ ret[2].time = <<49, 50, 58, 51, 48>> /\ ret[2].per_dose = 1

(* Breakfast at 00:10 taken before the meal, dinner at 23:50 taken after. *)
AlarmTimeWitness ==
    /\ Returned("generate")
    /\ default_meal_times # DefaultMealTimes
    /\ Len(arg) = 2
    /\ arg[1].timing = s_sikjeon /\ arg[1].frequency = 1
    /\ arg[2].timing = s_sikhu /\ arg[2].frequency = 3
    /\ Len(ret) = 4
    /\ ret[1].time = <<50, 51, 58, 52, 48>>
    /\ ret[4].time = <<48, 48, 58, 50, 48>>

----------------------------------------------------------------------------
(* Properties of match_from_ocr_lines and parse_prescription *)

NoDuplicateCanonical(entries) ==
    \A j, k \in 1..Len(entries) : entries[j].canonical = entries[k].canonical => j = k

(* C1: for every lexicon and every batch of lines, neither the list that   *)
(* match_from_ocr_lines returns nor the candidates list that               *)
(* parse_prescription returns holds two entries with the same canonical    *)
(* name.                                                                    *)
CanonicalNamesUnique ==
    /\ Returned("match") => NoDuplicateCanonical(ret)
    /\ Returned("parse") => NoDuplicateCanonical(ret.candidates)

(* The lines of the batch on which the canonical name is accepted. *)
LinesMatching(canonical) ==
    {i \in 1..Len(arg) :
        \E r \in Range(LineResults(lexicon, arg[i], i - 1, hash_seed)) : r.canonical = canonical}

(* Two different lines match the same drug and one entry is returned. *)
CanonicalDedupWitness ==
    /\ Returned("match")
    /\ Len(arg) = 2 /\ arg[1] # arg[2]
    /\ Len(ret) = 1
    /\ LinesMatching(ret[1].canonical) = {1, 2}

(* The scores, before min(score, 1.0), with which the lexicon entries of   *)
(* the entry's canonical name are accepted on the entry's line.             *)
RawScoresOf(entry) ==
    {PairScore(lexicon, lexicon.drugs[d], LineView(entry.matched_line, hash_seed), hash_seed).score :
        d \in {d \in 1..Len(lexicon.drugs) :
                 /\ lexicon.drugs[d].canonical = entry.canonical
                 /\ PairScore(lexicon, lexicon.drugs[d],
                              LineView(entry.matched_line, hash_seed), hash_seed).accepted}}

(* C2: the score of every entry match_from_ocr_lines returns lies in       *)
(* [0, 1] (0..100 hundredths): it is the maximum of the containment,       *)
(* token-overlap and fuzzy scores of its line and lexicon entry, which can *)
(* exceed 1, cut to 1.0 before it is reported.                              *)
ScoreWithinUnitInterval ==
    Returned("match") =>
        \A k \in 1..Len(ret) :
            /\ ret[k].score \in 0..100
            /\ \E raw \in RawScoresOf(ret[k]) :
                  ret[k].score = IF RatLeq(Rat(1, 1), raw) THEN 100 ELSE Round2(raw)

(* An entry whose score before the cut is above 1 is reported with 1.0. *)
ScoreClampWitness ==
    /\ Returned("match")
    /\ \E k \in 1..Len(ret) :
          /\ ret[k].score = 100
          /\ \E raw \in RawScoresOf(ret[k]) : ~RatLeq(raw, Rat(1, 1))

NonIncreasingScore(entries) ==
    \A k \in 1..(Len(entries) - 1) : entries[k].score >= entries[k + 1].score

(* The texts make step 1 of parse_prescription raise: texts is None or one *)
(* of its elements is not a str.                                            *)
TextsFault ==
    \/ arg.texts = None
    \/ \E i \in 1..Len(arg.texts.list) : ~IsStr(arg.texts.list[i])

(* A reply to a lookup makes step 3 raise: its usage is a number other     *)
(* than 0.                                                                  *)
ReplyFault ==
    \E k \in 1..Len(lookups) :
        /\ lookups[k].info # None
        /\ IsNumber(lookups[k].info.usage)
        /\ lookups[k].info.usage.hundredths # 0

(* The list match_from_ocr_lines returns to parse_prescription. *)
ParseMatches == match_from_ocr_lines(lexicon, clean_lines(arg.texts, arg.scores), hash_seed)

(* C8: the list match_from_ocr_lines returns is ordered by non-increasing  *)
(* score, each entry's score being >= that of the next, and the candidates *)
(* list of parse_prescription keeps the entries of that list in its order.  *)
SortedByScoreDescending ==
    /\ Returned("match") => NonIncreasingScore(ret)
    /\ (Returned("parse") /\ ~TextsFault /\ ~ReplyFault /\ lexicon # None) =>
          /\ NonIncreasingScore(ret.candidates)
          /\ [k \in 1..Len(ret.candidates) |->
                <<ret.candidates[k].canonical, ret.candidates[k].score>>]
             = [k \in 1..Len(ParseMatches) |->
                <<ParseMatches[k].canonical, ParseMatches[k].score>>]

(* The entry of the second line has the greater score and comes first. *)
SortedByScoreWitness ==
    /\ Returned("match")
    /\ Len(ret) = 2
    /\ ret[1].score > ret[2].score
    /\ ret[1].line_index = 1 /\ ret[2].line_index = 0

(* C9: every result of parse_prescription has a non-empty medicines list.  *)
(* Where nothing raised it holds one record per candidate, in candidate    *)
(* order; where there is no candidate (no lexicon, no clean line or no     *)
(* match) it holds exactly one 'no medicine found' record with per_dose 0  *)
(* and frequency 0, and candidates is empty.                                *)
MedicinesNeverEmpty ==
    Returned("parse") =>
        /\ ret.medicines # <<>>
        /\ (~TextsFault /\ ~ReplyFault) =>
              /\ ret.candidates # <<>> =>
                    /\ Len(ret.medicines) = Len(ret.candidates)
                    /\ \A k \in 1..Len(ret.candidates) :
                          /\ ret.medicines[k].name = ret.candidates[k].display_name
                          /\ lookups[k].name = ret.candidates[k].canonical
                    /\ Len(lookups) = Len(ret.candidates)
              /\ ret.candidates = <<>> =>
                    /\ Len(ret.medicines) = 1
                    /\ ret.medicines[1].name = s_no_medicine
                    /\ ret.medicines[1].per_dose = 0
                    /\ ret.medicines[1].frequency = 0
              /\ ret.candidates = <<>>
                 <=> \/ lexicon = None
                     \/ clean_lines(arg.texts, arg.scores) = <<>>
                     \/ ParseMatches = <<>>

(* A lexicon with drugs and a clean line that matches none of them. *)
SentinelWitness ==
    /\ Returned("parse")
    /\ ~TextsFault
    /\ lexicon # None /\ lexicon.drugs # <<>>
    /\ clean_lines(arg.texts, arg.scores) # <<>>
    /\ ret.candidates = <<>>
    /\ Len(ret.medicines) = 1
    /\ ret.medicines[1].name = s_no_medicine

(* C10: when a step of parse_prescription raises, the call still returns:  *)
(* its result is exactly one 'parse error' record with per_dose 0 and      *)
(* frequency 0 and an empty candidates list, and generate_alarms emits no  *)
(* alarm for it.                                                            *)
FaultBecomesParseError ==
    (Returned("parse") /\ (TextsFault \/ ReplyFault)) =>
        /\ Len(ret.medicines) = 1
        /\ ret.medicines[1].name = s_parse_error
        /\ ret.medicines[1].per_dose = 0
        /\ ret.medicines[1].frequency = 0
        /\ ret.candidates = <<>>
        /\ generate_alarms(ret.medicines, default_meal_times) = <<>>

(* The second lookup's reply raises after the first one built a record. *)
ParseErrorWitness ==
    /\ Returned("parse")
    /\ ~TextsFault
    /\ Len(lookups) = 2
    /\ lookups[1].info # None /\ IsStr(lookups[1].info.usage)
    /\ lookups[2].info # None /\ IsNumber(lookups[2].info.usage)
    /\ ret.medicines[1].name = s_parse_error

----------------------------------------------------------------------------
(* Properties of the failure taxonomy *)

(* The result for 'nothing to match': the one 'no medicine found' record   *)
(* and no candidate.                                                        *)
IsNoMedicineResult(result) ==
    /\ result.candidates = <<>>
    /\ Len(result.medicines) = 1
    /\ result.medicines[1].name = s_no_medicine

IsParseErrorResult(result) ==
    /\ Len(result.medicines) = 1
    /\ result.medicines[1].name = s_parse_error

(* Every element of texts is a str. *)
TextsAreStrs ==
    arg.texts # None /\ \A i \in 1..Len(arg.texts.list) : IsStr(arg.texts.list[i])

(* scores is absent, empty, or shorter than texts. *)
ScoresMissing ==
    \/ arg.scores = None
    \/ arg.scores.list = <<>>
    \/ (arg.texts # None /\ Len(arg.scores.list) < Len(arg.texts.list))

(* C11: empty or absent lists are 'nothing to match', not an error: with   *)
(* texts absent (None) or empty, parse_prescription returns the 'no        *)
(* medicine found' result with empty candidates; with scores absent, empty *)
(* or shorter than texts it never returns the 'parse error' result.         *)
NothingToMatchIsNotAnError ==
    Returned("parse") =>
        /\ (arg.texts = None \/ arg.texts = List(<<>>)) => IsNoMedicineResult(ret)
        /\ (TextsAreStrs /\ ScoresMissing /\ ~ReplyFault) => ~IsParseErrorResult(ret)

(* The file is missing or none of its lines is an entry: each line is      *)
(* blank, a comment, or has no name between its bars.                       *)
HasNoEntryLine(file) ==
    file = None
    \/ \A k \in 1..Len(file.list) :
          \/ Strip(file.list[k]) = <<>>
          \/ Strip(file.list[k])[1] = 35
          \/ EntryParts(Strip(file.list[k])) = <<>>

HasNoDrug(lex) == lex = None \/ lex.drugs = <<>>

(* C12: match_from_ocr_lines returns an empty list whenever the lexicon    *)
(* has no entry, whatever the lines, or the list of lines is empty,        *)
(* whatever the lexicon; a service whose lexicon file is missing or has no *)
(* entry line has no drug to match and its parse_prescription returns an   *)
(* empty candidates list.                                                   *)
EmptyLexiconOrLinesMatchNothing ==
    /\ (Returned("match") /\ (lexicon.drugs = <<>> \/ arg = <<>>)) => ret = <<>>
    /\ (Returned("parse") /\ HasNoDrug(lexicon)) => ret.candidates = <<>>
    /\ (Returned("parse") /\ HasNoDrug(lexicon) /\ ~TextsFault) => IsNoMedicineResult(ret)
    /\ \A file \in LexiconFiles :
          HasNoEntryLine(file) => HasNoDrug(LoadLexicon(file, hash_seed))

(* Two lines, the first naming a drug, matched against a lexicon that has  *)
(* no entry.                                                                *)
EmptyLexiconWitness ==
    /\ Returned("match")
    /\ lexicon.drugs = <<>>
    /\ Len(arg) = 2
    /\ arg[1] = <<53440, 51060, 47112, 45440, 51221, 32, 53, 48, 48, 109, 103>>
    /\ ret = <<>>

(* The lookup did not resolve: it returned no data (None), or it raised    *)
(* and get_medicine_info returned its stand-in.                             *)
LookupUnresolved(info) == info = None \/ info = _get_dummy_medicine_info

----------------------------------------------------------------------------
(* Properties of the service under concurrent requests *)

(* The results the request can get when it is the only one served by the   *)
(* service as __init__ built it.                                            *)
ResultsAlone(request) ==
    LET lex == LoadLexicon(ServiceFile, hash_seed)
    IN  CASE request.op = "match" ->
                {match_from_ocr_lines(lex, request.lines, hash_seed)}
          [] request.op = "parse" ->
                LET candidates == CandidatesOf(lex, request.texts, request.scores, hash_seed)
                IN  {ParseResult(request.texts, candidates, replies) :
                        replies \in [1..Len(candidates) -> get_medicine_info(api_key, ItemPool)]}
          [] request.op = "generate" ->
                {generate_alarms(request.medicines, DefaultMealTimes)}

(* C14: after construction the lexicon and the meal-time table are read    *)
(* only: no step of a call of match_from_ocr_lines, parse_prescription or  *)
(* generate_alarms changes them, and under every interleaving of two       *)
(* concurrent requests each request returns a result it can get alone.      *)
LexiconReadOnlyAfterConstruction ==
    /\ [][lexicon' = lexicon /\ default_meal_times' = default_meal_times]_vars
    /\ [](\A i \in 1..2 : pc[i] = "return" => ret[i] \in ResultsAlone(arg[i]))

(* Both requests have returned, the second one a match that ran after a    *)
(* match of the same drug.                                                  *)
ConcurrentRequestsWitness ==
    /\ op = "concurrent"
    /\ pc = <<"return", "return">>
    /\ arg[1].op = "match" /\ arg[2].op = "match" /\ arg[1] # arg[2]
    /\ Len(ret[1]) = 1 /\ Len(ret[2]) = 2
    /\ ret[1][1].canonical = ret[2][1].canonical

----------------------------------------------------------------------------
(* Properties of the scores of match_from_ocr_lines *)

(* Some normalized alias of the drug is inside the normalized line, or the *)
(* normalized line is inside one of them.                                   *)
AliasContainment(drug, line) ==
    \E k \in 1..Len(drug.normalized_aliases) :
        \/ Contains(drug.normalized_aliases[k], _normalize_ocr(line))
        \/ Contains(_normalize_ocr(line), drug.normalized_aliases[k])

(* C15: hard containment.  For every line of the batch and every lexicon   *)
(* entry, if a normalized alias of the entry is a substring of the         *)
(* normalized line, or the normalized line is a substring of an alias, the *)
(* list match_from_ocr_lines returns has an entry for that canonical name  *)
(* with score >= 0.95.                                                      *)
ContainmentScoresAtLeast95 ==
    Returned("match") =>
        \A i \in 1..Len(arg) : \A d \in 1..Len(lexicon.drugs) :
            AliasContainment(lexicon.drugs[d], arg[i]) =>
                \E k \in 1..Len(ret) :
                    /\ ret[k].canonical = lexicon.drugs[d].canonical
                    /\ ret[k].score >= 95

----------------------------------------------------------------------------
(* Properties of _parse_usage_ranges *)

(* C16: _parse_usage_ranges extracts the ranges as written.  A one-dose    *)
(* pattern 'N~M unit' gives dose_range {min N, max M, unit} and a single N *)
(* gives min = max = N; a daily-frequency pattern gives freq_range the     *)
(* same way; where a pattern is absent min and max stay unset (None, not   *)
(* 0) and unit and timing stay empty.                                       *)
RangesAsWritten ==
    Returned("ranges") =>
        /\ ret.dose_range = [min |-> arg.dose.min, max |-> arg.dose.max, unit |-> arg.dose.unit]
        /\ ret.freq_range = [min |-> arg.freq.min, max |-> arg.freq.max]
        /\ ret.timing = arg.timing.timing
        /\ arg.dose.text = <<>> => (ret.dose_range.min # 0 /\ ret.dose_range.max # 0)
        /\ arg.freq.text = <<>> => (ret.freq_range.min # 0 /\ ret.freq_range.max # 0)

(* '1회 1~2정, 1일 3회 식후 30분에 복용' gives dose 1 to 2 정, frequency 3 to *)
(* 3 and timing after meals.                                                *)
RangesExampleWitness ==
    /\ Returned("ranges")
    /\ arg.text = <<49, 54924, 32, 49, 126, 50, 51221, 44, 32, 49, 51068, 32, 51, 54924, 32,
                    49885, 54980, 32, 51, 48, 48516, 50640, 32, 48373, 50857>>
    /\ ret = [dose_range |-> [min |-> 1, max |-> 2, unit |-> <<51221>>],
              freq_range |-> [min |-> 3, max |-> 3],
              timing     |-> <<49885, 54980>>]

----------------------------------------------------------------------------
(* Properties of the line filter of parse_prescription *)

(* Noise as the filter is described: at most one character, a boilerplate  *)
(* keyword inside, a currency amount, an 8-digit date, a dashed date, or   *)
(* the shape of a business registration number.                             *)
IsNoiseAsDescribed(t) ==
    \/ Len(t) <= 1
    \/ \E k \in _KO_NOISE_KEYWORDS : Contains(k, t)
    \/ IsCurrencyAmount(t)
    \/ (Len(t) = 8 /\ AllDigits(t, 1, 8))
    \/ IsDashedNumber(t, 4, TRUE, 2, 2)
    \/ IsDashedNumber(t, 3, FALSE, 2, 5)

(* The confidence of the i-th text is supplied and below 0.50; there is    *)
(* none when scores is absent or ends before i.                             *)
ConfidenceTooLow(i) ==
    /\ arg.scores # None
    /\ i <= Len(arg.scores.list)
    /\ arg.scores.list[i].hundredths < 50

(* The texts that may reach the matcher, normalized, in their order. *)
LinesForMatcher ==
    LET norm == [i \in 1..Len(arg.texts.list) |-> _normalize_ocr(arg.texts.list[i].str)]
        kept == SelectSeq([i \in 1..Len(norm) |-> i],
                          LAMBDA i : /\ norm[i] # <<>>
                                     /\ ~ConfidenceTooLow(i)
                                     /\ ~IsNoiseAsDescribed(norm[i]))
    IN  [n \in 1..Len(kept) |-> norm[kept[n]]]

(* C17: parse_prescription hands a line to the matcher only if its         *)
(* normalized form is non-empty, is not noise and its confidence is absent *)
(* or >= 0.50; a line whose index is beyond the end of scores has no       *)
(* confidence and is not dropped for it.  The candidates are those of the  *)
(* lines that pass, and each candidate's line_index counts those lines.     *)
OnlyCleanLinesReachMatcher ==
    Returned("parse") =>
        /\ clean_lines(arg.texts, arg.scores) = LinesForMatcher
        /\ ret.candidates = Candidates(lexicon, LinesForMatcher, hash_seed)
        /\ \A k \in 1..Len(ret.candidates) :
              /\ ret.candidates[k].line_index < Len(LinesForMatcher)
              /\ ret.candidates[k].matched_line = LinesForMatcher[ret.candidates[k].line_index + 1]

(* '20240101' has confidence 0.49 and is noise; '타이레놀정 500mg' lies     *)
(* beyond the end of scores and is matched as the first clean line.         *)
NoiseFilteredWitness ==
    /\ Returned("parse")
    /\ arg.scores = List(<<Number(49)>>)
    /\ Len(arg.texts.list) = 2
    /\ arg.texts.list[1] = Str(<<50, 48, 50, 52, 48, 49, 48, 49>>)
    /\ Len(ret.candidates) = 1
    /\ ret.candidates[1].line_index = 0
    /\ ret.candidates[1].matched_line = <<53440, 51060, 47112, 45440, 51221, 53, 48, 48, 109, 103>>

(* The scores, as reported (cut to 1.0, in hundredths), that the pairs of a *)
(* line of the batch and a lexicon entry of the canonical name reach at or *)
(* above the acceptance threshold.  A line without a token of its own is   *)
(* not scored.                                                              *)
AcceptedScoresOf(canonical) ==
    {IF RatLeq(Rat(1, 1), p.score) THEN 100 ELSE Round2(p.score) :
        p \in {p \in {PairScore(lexicon, lexicon.drugs[d], LineView(arg[i], hash_seed), hash_seed) :
                         i \in {i \in 1..Len(arg) :
                                  LineView(arg[i], hash_seed).line_tokens_raw # {}},
                         d \in {d \in 1..Len(lexicon.drugs) :
                                  lexicon.drugs[d].canonical = canonical}} :
                 p.accepted}}

(* C18: dedup keeps the highest score.  For every canonical name in the    *)
(* list match_from_ocr_lines returns, the reported score is the maximum of *)
(* the scores reached at or above the threshold by the pairs of a line and *)
(* a lexicon entry of that canonical name, within one line and across the  *)
(* lines, also when several lexicon entries share the canonical name.       *)
DedupKeepsHighestScore ==
    Returned("match") =>
        \A k \in 1..Len(ret) :
            /\ ret[k].score \in AcceptedScoresOf(ret[k].canonical)
            /\ \A sc \in AcceptedScoresOf(ret[k].canonical) : sc <= ret[k].score

----------------------------------------------------------------------------
(* Properties of the dosage augmentation *)

LexiconCanonicals == {lexicon.drugs[d].canonical : d \in 1..Len(lexicon.drugs)}

(* The candidates of the request, and the cleaned lines they come from. *)
RequestCandidates == CandidatesOf(lexicon, arg.texts, None, hash_seed)

RequestLines == clean_lines(arg.texts, None)

(* The '<number><unit>' texts of the cleaned lines at distance <= 2 from   *)
(* the line, in line order.                                                 *)
DosagesNear(line_index) ==
    SelectSeq([k \in 1..Len(RequestLines) |->
                  IF k - 1 >= line_index - 2 /\ k - 1 <= line_index + 2
                  THEN DosageIn(RequestLines[k]) ELSE <<>>],
              LAMBDA d : d # <<>>)

(* The request reaches parse_prescription with texts that do not raise. *)
EndpointParses ==
    /\ arg # None /\ arg # EmptyDict
    /\ arg.texts # None
    /\ \A i \in 1..Len(arg.texts.list) : IsStr(arg.texts.list[i])

(* C19: the dosage augmentation changes the display name only.  While a    *)
(* parse request is served, each candidate's display_name is its canonical *)
(* name, or that name, a space and the first dosage found in the cleaned   *)
(* lines at distance <= 2 from its line; its canonical field is a          *)
(* canonical name of the lexicon; and every lookup made for a candidate is *)
(* keyed by the bare canonical name, never by the display name (the one   *)
(* other lookup is that of the 'parse error' record).                       *)
LookupKeyIsBareCanonical ==
    (Returned("endpoint") /\ EndpointParses) =>
        /\ \A k \in 1..Len(RequestCandidates) :
              LET c == RequestCandidates[k]
              IN  /\ c.canonical \in LexiconCanonicals
                  /\ c.display_name =
                        IF DosagesNear(c.line_index) = <<>> THEN c.canonical
                        ELSE c.canonical \o <<32>> \o DosagesNear(c.line_index)[1]
        /\ RequestCandidates # <<>> =>
              \A k \in 1..Len(lookups) :
                  lookups[k].name \in LexiconCanonicals \cup {s_parse_error}

----------------------------------------------------------------------------
(* Properties of the single-value fallback *)

(* The adult's count where it is set, else the child's where it is set,    *)
(* else 0; None is NoInt.                                                   *)
FirstSetCount(adult, child) ==
    IF adult # NoInt THEN adult ELSE IF child # NoInt THEN child ELSE 0

(* The adult's text where it is set, else the child's where it is set,     *)
(* else the unknown value.                                                  *)
FirstSetText(adult, child, unknown) ==
    IF adult # <<>> THEN adult ELSE IF child # <<>> THEN child ELSE unknown

(* The reply is an item whose usage is a text. *)
IsResolvedReply(info) == info # None /\ IsStr(info.usage)

(* C20: single-value fallback.  In a record built from a successful        *)
(* lookup, per_dose, unit, frequency and timing each equal the adult       *)
(* range's value (the upper bound for the counts) whenever the adult range *)
(* has it set, otherwise the child's whenever set, otherwise 0, 0, the     *)
(* empty unit and the after-meal timing; a value set in the adult range is *)
(* never replaced by the child's.                                           *)
AdultValueBeforeChildValue ==
    (Returned("parse") /\ ~TextsFault /\ ~ReplyFault) =>
        \A k \in 1..Len(lookups) :
            IsResolvedReply(lookups[k].info) =>
                LET blocks == _split_usage_by_age(lookups[k].info.usage.str)
                    adult  == RangesOf(blocks.adult)
                    child  == RangesOf(blocks.child)
                    med    == ret.medicines[k]
                IN  /\ med.per_dose = FirstSetCount(adult.dose_range.max, child.dose_range.max)
                    /\ med.unit = FirstSetText(adult.dose_range.unit, child.dose_range.unit, <<>>)
                    /\ med.frequency = FirstSetCount(adult.freq_range.max, child.freq_range.max)
                    /\ med.timing = FirstSetText(adult.timing, child.timing, s_sikhu)

----------------------------------------------------------------------------
(* Properties of the timing classification *)

(* after-meal, before-meal, between-meals, bedtime, empty-stomach *)
TimingPriority == <<s_sikhu, s_sikjeon, s_sikgan, s_chwichimjeon, s_gongbok>>

(* The timings marked by the phrases of the text *)
TimingsMarked == {arg.phrases[i].timing : i \in 1..Len(arg.phrases)} \ {<<>>}

(* The first timing of the priority order among those marked, empty if     *)
(* none is marked.                                                          *)
HighestPriority(marked) ==
    LET hits == {k \in 1..Len(TimingPriority) : TimingPriority[k] \in marked}
    IN  IF hits = {} THEN <<>>
        ELSE TimingPriority[CHOOSE k \in hits : \A j \in hits : k <= j]

AvoidsEmptyStomach == \E i \in 1..Len(arg.phrases) : arg.phrases[i].avoids

----------------------------------------------------------------------------
(* Properties of the acceptance threshold *)

(* The line tokens are looked at: the line has a token that is not noise. *)
LineIsCompared(line) == LineView(line, hash_seed).line_tokens_raw # {}

(* Score and threshold of line i of the call against drug d of the lexicon *)
PairOf(i, d) == PairScore(lexicon, lexicon.drugs[d], LineView(arg[i], hash_seed), hash_seed)

(* More than half of the Korean tokens of the line are noise tokens. *)
NoisyLine(line) ==
    With(KoreanTokens(_normalize_ocr(line)), LAMBDA raw :
        2 * Cardinality({k \in 1..Len(raw) : _is_noise_token(raw[k])}) > Len(raw))

(* The matched tokens of the pair carry a boost of at least 0.3. *)
IsRelaxed(pair) == pair.matched_tokens # {} /\ RatLeq(Rat(3, 10), pair.idf_boost)

(* C22: a pair of a line and an entry is accepted only if its score is at  *)
(* least its threshold: no accepted pair scores below 0.40, none below     *)
(* 0.45 unless its matched tokens carry a boost of at least 0.3, and none  *)
(* below 0.50 on a line more than half of whose Korean tokens are noise;   *)
(* the same holds of the scores of the returned candidates.                *)
AcceptedOnlyAboveThreshold ==
    Returned("match") =>
        /\ \A i \in 1..Len(arg) : \A d \in 1..Len(lexicon.drugs) :
               With(PairOf(i, d), LAMBDA pair :
                   (LineIsCompared(arg[i]) /\ pair.accepted) =>
                       /\ RatLeq(Rat(40, 100), pair.score)
                       /\ ~IsRelaxed(pair) => RatLeq(Rat(45, 100), pair.score)
                       /\ NoisyLine(arg[i]) => RatLeq(Rat(50, 100), pair.score))
        /\ \A k \in 1..Len(ret) :
               /\ ret[k].score >= 40
               /\ NoisyLine(ret[k].matched_line) => ret[k].score >= 50

(* '타이러늘 1정 1일' has two noise tokens of three; the misread name is    *)
(* accepted with 0.62.                                                      *)
NoisyLineAcceptedWitness ==
    /\ Returned("match")
    /\ Len(arg) = 1
    /\ arg[1] = <<53440, 51060, 47084, 45720, 32, 49, 51221, 32, 49, 51068>>
    /\ NoisyLine(arg[1])
    /\ Len(ret) = 1
    /\ ret[1].score = 62

----------------------------------------------------------------------------
(* Properties of the token-overlap score *)

(* [B] base + idf_boost of a pair with a matched token *)
TokenOverlapScore(pair) ==
    RatAdd(IF Cardinality(pair.matched_tokens) = 1 THEN Rat(6, 10) ELSE Rat(8, 10),
           pair.idf_boost)

(* The returned candidate of the entry has score 1.00. *)
ReportedWithOne(drug) ==
    \E k \in 1..Len(ret) : ret[k].canonical = drug.canonical /\ ret[k].score = 100

----------------------------------------------------------------------------
(* Properties of the age buckets *)

(* The sentences of the usage text that name an age group *)
AgedSentences == SelectSeq(arg.sentences, LAMBDA q : q.aged)

(* The reply of a lookup is the item the service holds. *)
RepliedWithItem(k) == lookups[k].info = ItemInfo(arg.item)

(* C24: dose and frequency reach a record only through the age buckets.   *)
(* When no sentence of the usage text of a lookup names an age group, the  *)
(* record has per_dose 0, an empty unit, frequency 0 and the after-meal    *)
(* timing, whatever patterns the text holds, and generate_alarms gives no  *)
(* alarm for it; and in every case the record is the one the text gives    *)
(* with its sentences without an age group left out.                        *)
OnlyAgedSentencesReachRecord ==
    Returned("parse") =>
        \A k \in 1..Len(lookups) :
            RepliedWithItem(k) =>
                With(ret.medicines[k], LAMBDA med :
                    /\ AgedSentences = <<>> =>
                           /\ med.per_dose = 0
                           /\ med.unit = <<>>
                           /\ med.frequency = 0
                           /\ med.timing = s_sikhu
                           /\ generate_alarms(<<med>>, default_meal_times) = <<>>
                    /\ med = MedicineRecord(ret.candidates[k],
                                            ItemInfo(ItemWithUsage(SentencesText(AgedSentences)))))

(* The usage '1회 2정 1일 3회 식전' names no age group: the record has no     *)
(* dose and no frequency, and is taken after meals.                         *)
UnagedUsageWitness ==
    /\ Returned("parse")
    /\ arg.item.useMethodQesitm = Str(<<49, 54924, 32, 50, 51221, 32, 49, 51068, 32, 51, 54924, 32, 49885, 51204>>)
    /\ Len(lookups) = 1
    /\ RepliedWithItem(1)
    /\ ret.medicines[1].per_dose = 0
    /\ ret.medicines[1].frequency = 0
    /\ ret.medicines[1].timing = s_sikhu

====
